---- MODULE Spec2Model ----
(***************************************************************************)
(* The thumbnail cache of spica-photo-viewer (src-tauri/src/commands/      *)
(* cache.rs): one JSON file per cache key in the application's cache       *)
(* directory, written by set_cached_thumbnail, probed by                   *)
(* get_cached_thumbnail and swept by clear_old_cache.                      *)
(*                                                                         *)
(* The file system is the state.  A file's content is modelled down to     *)
(* what serde_json reads and writes: whether the bytes are UTF-8 text,     *)
(* whether the text is a JSON object, and the object's members in the      *)
(* order they are written, string values in their escaped form.            *)
(***************************************************************************)
EXTENDS Integers, Sequences, FiniteSets, TLC

(***************************************************************************)
(* Program constants.                                                      *)
(***************************************************************************)
CACHE_DURATION == 24 * 60 * 60

DEFAULT_SIZE == 30

(***************************************************************************)
(* Bounds of the model.                                                    *)
(***************************************************************************)
\* Files the cache directory holds at any time.
MaxFiles == 2

(***************************************************************************)
(* Inputs.                                                                 *)
(***************************************************************************)
\* size: Option<u32>.
NoSize == [some |-> FALSE, n |-> DEFAULT_SIZE]

SomeSize(n) == [some |-> TRUE, n |-> n]

\* The bytes of the paths "/a.jpg" and "/b.jpg".
PathA == <<47, 97, 46, 106, 112, 103>>

PathB == <<47, 98, 46, 106, 112, 103>>

\* The (path, size) arguments the caller passes.
Requests ==
    {<<PathA, NoSize>>, <<PathA, SomeSize(30)>>, <<PathA, SomeSize(50)>>,
     <<PathB, SomeSize(30)>>}

\* size.unwrap_or(default)
unwrap_or(size, default) == IF size.some THEN size.n ELSE default

\* Characters of a thumbnail payload; the quote and the backslash are the
\* two that serde_json must escape inside a string.
QUOTE == "\""

BACKSLASH == "\\"

Payloads == {<<"A">>, <<QUOTE, "B", BACKSLASH>>}

\* Readings of the system clock (seconds since the epoch).  SystemTime is
\* not monotonic: a reading may be lower than an earlier one.
ClockValues == {1, CACHE_DURATION, CACHE_DURATION + 1, CACHE_DURATION + 2}

(***************************************************************************)
(* Result values.                                                          *)
(***************************************************************************)
None == [some |-> FALSE, v |-> <<>>]

Some(x) == [some |-> TRUE, v |-> x]

Ok(x) == [tag |-> "Ok", val |-> x, msg |-> ""]

Err(m) == [tag |-> "Err", val |-> None, msg |-> m]

\* The call did not return: the task panicked.
Panic(m) == [tag |-> "Panic", val |-> None, msg |-> m]

(***************************************************************************)
(* CacheEntry and its JSON form.                                           *)
(***************************************************************************)
CacheEntry(thumbnail, created) == [thumbnail |-> thumbnail, created |-> created]

JStr(s) == [kind |-> "str", str |-> s, num |-> 0]

JNum(n) == [kind |-> "num", str |-> <<>>, num |-> n]

Member(name, value) == [name |-> name, value |-> value]

\* File contents.
NoFile == [kind |-> "none", obj |-> FALSE, members |-> <<>>]

\* Bytes that are not valid UTF-8.
BinaryContent == [kind |-> "bytes", obj |-> FALSE, members |-> <<>>]

\* UTF-8 text that is not a JSON object (also the empty file).
GarbageText == [kind |-> "text", obj |-> FALSE, members |-> <<>>]

ObjectText(members) == [kind |-> "text", obj |-> TRUE, members |-> members]

\* serde_json's string escaping, on the two characters of the model that
\* need it.
RECURSIVE escape(_)
escape(s) ==
    IF s = <<>> THEN <<>>
    ELSE LET c == Head(s) IN
         (IF c = QUOTE \/ c = BACKSLASH THEN <<BACKSLASH, c>> ELSE <<c>>)
             \o escape(Tail(s))

\* The inverse, as the JSON string parser reads it: [ok, str].
RECURSIVE unescape(_)
unescape(s) ==
    IF s = <<>> THEN [ok |-> TRUE, str |-> <<>>]
    ELSE IF Head(s) = QUOTE THEN [ok |-> FALSE, str |-> <<>>]
    ELSE IF Head(s) = BACKSLASH THEN
        IF Len(s) < 2 \/ Tail(s)[1] \notin {QUOTE, BACKSLASH}
        THEN [ok |-> FALSE, str |-> <<>>]
        ELSE LET r == unescape(Tail(Tail(s))) IN
             [ok |-> r.ok, str |-> <<Tail(s)[1]>> \o r.str]
    ELSE LET r == unescape(Tail(s)) IN
         [ok |-> r.ok, str |-> <<Head(s)>> \o r.str]

\* serde_json::to_string(&CacheEntry): the fields in declaration order.
to_string(entry) ==
    ObjectText(<< Member("thumbnail", JStr(escape(entry.thumbnail))),
                  Member("created", JNum(entry.created)) >>)

ParseError == [ok |-> FALSE, entry |-> CacheEntry(<<>>, 0)]

\* The derived Deserialize of CacheEntry, visiting the members of a JSON
\* object in order: a field given twice is an error, a value of the wrong
\* type is an error, an unknown key is skipped, and both fields must have
\* been seen at the end.  th and cr are Option<String> and Option<u64>.
RECURSIVE visit_map(_, _, _)
visit_map(members, th, cr) ==
    IF members = <<>> THEN
        IF th.some /\ cr.some
        THEN [ok |-> TRUE, entry |-> CacheEntry(th.v, cr.v)]
        ELSE ParseError
    ELSE LET m == Head(members) IN
         IF m.name = "thumbnail" THEN
             IF th.some \/ m.value.kind # "str" THEN ParseError
             ELSE LET u == unescape(m.value.str) IN
                  IF u.ok THEN visit_map(Tail(members), Some(u.str), cr)
                  ELSE ParseError
         ELSE IF m.name = "created" THEN
             IF cr.some \/ m.value.kind # "num" \/ m.value.num < 0 THEN ParseError
             ELSE visit_map(Tail(members), th, Some(m.value.num))
         ELSE visit_map(Tail(members), th, cr)

\* serde_json::from_str::<CacheEntry>(&content), on UTF-8 text.
from_str(content) ==
    IF content.kind = "text" /\ content.obj
    THEN visit_map(content.members, None, None)
    ELSE ParseError

\* fs::read_to_string succeeds on a file of UTF-8 text.
IsUtf8(content) == content.kind = "text"

(***************************************************************************)
(* Cache keys and file names.                                              *)
(***************************************************************************)
(***************************************************************************)
(* std::collections::hash_map::DefaultHasher: SipHash-1-3 with a zero key, *)
(* over the bytes written to it.  A u64 is four 16-bit limbs, the least    *)
(* significant first.                                                      *)
(***************************************************************************)
\* 2^16
LIMB == 65536

RECURSIVE zeros(_)
zeros(n) == IF n = 0 THEN <<>> ELSE <<0>> \o zeros(n - 1)

\* The word whose little-endian bytes are the given ones, zero-extended.
from_le_bytes(bytes) ==
    LET b == bytes \o zeros(8 - Len(bytes))
    IN  [i \in 1 .. 4 |-> b[2 * i - 1] + 256 * b[2 * i]]

\* The little-endian bytes of a u32.
u32_to_le_bytes(n) ==
    << n % 256, (n \div 256) % 256, (n \div 65536) % 256, (n \div 16777216) % 256 >>

RECURSIVE bitxor(_, _)
bitxor(a, b) ==
    IF a = 0 /\ b = 0 THEN 0
    ELSE ((a + b) % 2) + 2 * bitxor(a \div 2, b \div 2)

xor(a, b) == <<bitxor(a[1], b[1]), bitxor(a[2], b[2]),
               bitxor(a[3], b[3]), bitxor(a[4], b[4])>>

rotate_left(a, r) ==
    LET q == r \div 16
        k == r % 16
        limb(i) == a[((i - 1 + 8 - q) % 4) + 1]
    IN  << ((limb(1) * (2 ^ k)) % LIMB) + (limb(0) \div (2 ^ (16 - k))),
           ((limb(2) * (2 ^ k)) % LIMB) + (limb(1) \div (2 ^ (16 - k))),
           ((limb(3) * (2 ^ k)) % LIMB) + (limb(2) \div (2 ^ (16 - k))),
           ((limb(4) * (2 ^ k)) % LIMB) + (limb(3) \div (2 ^ (16 - k))) >>

\* Addition modulo 2^64: the carry out of the top limb is dropped.
wrapping_add(a, b) ==
    LET s1 == a[1] + b[1]
        s2 == a[2] + b[2] + (s1 \div LIMB)
        s3 == a[3] + b[3] + (s2 \div LIMB)
        s4 == a[4] + b[4] + (s3 \div LIMB)
    IN  <<s1 % LIMB, s2 % LIMB, s3 % LIMB, s4 % LIMB>>

\* The only element of a singleton set.
Only(S) == CHOOSE x \in S : TRUE

(***************************************************************************)
(* The hasher's state is <<v0, v1, v2, v3>>.  Its arithmetic is a sequence *)
(* of instructions on the state:                                           *)
(*   <<"add", i, j>>   v_i = v_i.wrapping_add(v_j)                         *)
(*   <<"xor", i, j>>   v_i ^= v_j                                          *)
(*   <<"rotl", i, r>>  v_i = v_i.rotate_left(r)                            *)
(*   <<"mix", i, m>>   v_i ^= m, for a word m                              *)
(***************************************************************************)
step(v, ins) ==
    CASE ins[1] = "add" -> [v EXCEPT ![ins[2]] = wrapping_add(v[ins[2]], v[ins[3]])]
      [] ins[1] = "xor" -> [v EXCEPT ![ins[2]] = xor(v[ins[2]], v[ins[3]])]
      [] ins[1] = "rotl" -> [v EXCEPT ![ins[2]] = rotate_left(v[ins[2]], ins[3])]
      [] ins[1] = "mix" -> [v EXCEPT ![ins[2]] = xor(v[ins[2]], ins[3])]

\* The state after instructions lo .. hi of the program, each applied to
\* the state the one before it left.
RECURSIVE run(_, _, _, _)
run(v, program, lo, hi) ==
    IF lo = hi THEN step(v, program[lo])
    ELSE Only({run(mid, program, ((lo + hi) \div 2) + 1, hi) :
                  mid \in {run(v, program, lo, (lo + hi) \div 2)}})

\* One SipRound (v0 .. v3 are 1 .. 4 here).
sip_round ==
    << <<"add", 1, 2>>, <<"rotl", 2, 13>>, <<"xor", 2, 1>>, <<"rotl", 1, 32>>,
       <<"add", 3, 4>>, <<"rotl", 4, 16>>, <<"xor", 4, 3>>,
       <<"add", 1, 4>>, <<"rotl", 4, 21>>, <<"xor", 4, 1>>,
       <<"add", 3, 2>>, <<"rotl", 2, 17>>, <<"xor", 2, 3>>, <<"rotl", 3, 32>> >>

\* c_rounds = 1: mix one 8-byte word into the state.
compress(m) == << <<"mix", 4, m>> >> \o sip_round \o << <<"mix", 1, m>> >>

\* The last word carries the tail of the message and, in its top byte, the
\* length of the whole message.
last_word(tail, length) ==
    from_le_bytes(tail \o zeros(7 - Len(tail)) \o <<length % 256>>)

RECURSIVE compress_all(_, _)
compress_all(msg, length) ==
    IF Len(msg) < 8 THEN compress(last_word(msg, length))
    ELSE compress(from_le_bytes(SubSeq(msg, 1, 8)))
             \o compress_all(SubSeq(msg, 9, Len(msg)), length)

\* d_rounds = 3
finalize ==
    << <<"mix", 3, from_le_bytes(<<255>>)>> >> \o sip_round \o sip_round \o sip_round

\* "somepseudorandomlygeneratedbytes", xored with the zero key.
sip_init ==
    << from_le_bytes(<<117, 101, 115, 112, 101, 109, 111, 115>>),
       from_le_bytes(<<109, 111, 100, 110, 97, 114, 111, 100>>),
       from_le_bytes(<<97, 114, 101, 110, 101, 103, 121, 108>>),
       from_le_bytes(<<115, 101, 116, 121, 98, 100, 101, 116>>) >>

\* Hasher::finish on the bytes written to the hasher.
finish(msg) ==
    Only({ Only({xor(xor(v[1], v[2]), xor(v[3], v[4])) : v \in {run(sip_init, program, 1, Len(program))}}) :
           program \in {compress_all(msg, Len(msg)) \o finalize} })

HexDigits ==
    <<"0", "1", "2", "3", "4", "5", "6", "7", "8", "9", "a", "b", "c", "d", "e", "f">>

RECURSIVE strip_zeros(_)
strip_zeros(ds) ==
    IF Len(ds) > 1 /\ Head(ds) = "0" THEN strip_zeros(Tail(ds)) ELSE ds

\* format!("{:x}", h): the hexadecimal digits, most significant first, with
\* no leading zeros.
format_hex(h) ==
    LET digits(l) == << HexDigits[(l \div 4096) + 1], HexDigits[((l \div 256) % 16) + 1],
                        HexDigits[((l \div 16) % 16) + 1], HexDigits[(l % 16) + 1] >>
    IN  strip_zeros(digits(h[4]) \o digits(h[3]) \o digits(h[2]) \o digits(h[1]))

\* path.hash(&mut hasher) writes the bytes of the str and 0xff;
\* size.hash(&mut hasher) writes the four bytes of the u32.
get_cache_key(path, size) ==
    format_hex(finish(path \o <<255>> \o u32_to_le_bytes(size)))

FileName(stem, ext) == [stem |-> stem, ext |-> ext]

\* "/cbed1ae9e795b583.jpg" and "/82e9e66fb790af7a.jpg"
PathC == <<47, 99, 98, 101, 100, 49, 97, 101, 57, 101, 55, 57, 53, 98, 53, 56, 51,
           46, 106, 112, 103>>

PathD == <<47, 56, 50, 101, 57, 101, 54, 54, 102, 98, 55, 57, 48, 97, 102, 55, 97,
           46, 106, 112, 103>>

\* The requests of the caller that names four image files.
KeyRequests ==
    {<<p, SomeSize(30)>> : p \in {PathA, PathB, PathC, PathD}} \cup {<<PathA, SomeSize(50)>>}

\* The keys of the requests of the model, each computed once.
CacheKeys ==
    [k \in {<<r[1], unwrap_or(r[2], DEFAULT_SIZE)>> : r \in Requests \cup KeyRequests} |->
        get_cache_key(k[1], k[2])]

\* cache_dir.join(format!("{}.json", cache_key))
cache_file(path, size) == FileName(CacheKeys[<<path, size>>], "json")

\* The entry files the requests of the model address.
KeyFiles == {cache_file(r[1], unwrap_or(r[2], DEFAULT_SIZE)) : r \in Requests}

\* A file in the cache directory that is not an entry file.
OtherFile == FileName(<<"n", "o", "t", "e", "s">>, "txt")

FileNames == KeyFiles \cup {OtherFile}

Present(fs) == {f \in FileNames : fs[f] # NoFile}

EmptyDir == [f \in FileNames |-> NoFile]

(***************************************************************************)
(* State.                                                                  *)
(***************************************************************************)
VARIABLES
    clock,           \* the reading SystemTime::now() gives
    dirExists,       \* the cache directory exists
    files,           \* the cache directory: file name -> content
    overflowChecks,  \* the build panics on integer overflow (debug profile)
    script,          \* the commands the caller has still to issue
    last,            \* the last command: its call, its result, the directory before
    prev,            \* the command before it
    processRun,      \* the run of the process: 1 for the first, + 1 at each restart
    sources,         \* the image files: path -> file
    race             \* commands running concurrently: task -> its position and locals

vars == <<clock, dirExists, files, overflowChecks, script, last, prev, processRun, sources,
          race>>

(***************************************************************************)
(* u64 arithmetic of the age test.  current_time - created on u64 either   *)
(* is the difference, or underflows: the debug profile panics, the release *)
(* profile wraps to 2^64 - (created - current_time), which exceeds         *)
(* CACHE_DURATION for every pair of readings of the model.                 *)
(***************************************************************************)
Underflows(current_time, created) == created > current_time

\* Mutant of age_exceeds: the comparison is >= (expires one second early).
age_exceeds_ge(current_time, created) ==
    IF Underflows(current_time, created) THEN TRUE
    ELSE current_time - created >= CACHE_DURATION

\* current_time - created > CACHE_DURATION, where the subtraction returns.
age_exceeds(current_time, created) ==
    IF Underflows(current_time, created) THEN TRUE
    ELSE current_time - created > CACHE_DURATION

\* fs::remove_file(&path)
remove_file(fs, path, fails) == IF fails THEN fs ELSE [fs EXCEPT ![path] = NoFile]

(***************************************************************************)
(* get_cache_dir: resolve the platform's cache directory and create it if  *)
(* it is missing.  fault: "resolve" (the environment variable is unset, on *)
(* Windows and macOS), "create" (create_dir_all fails).                    *)
(***************************************************************************)
get_cache_dir(exists, fault) ==
    IF fault = "resolve"
    THEN [ok |-> FALSE, exists |-> exists, msg |-> "Failed to get HOME directory"]
    ELSE IF ~exists THEN
        IF fault = "create"
        THEN [ok |-> FALSE, exists |-> FALSE, msg |-> "Failed to create cache directory"]
        ELSE [ok |-> TRUE, exists |-> TRUE, msg |-> ""]
    ELSE [ok |-> TRUE, exists |-> TRUE, msg |-> ""]

Outcome(fs, exists, result, removed) ==
    [files |-> fs, exists |-> exists, result |-> result, removed |-> removed]

\* Mutant of get_cached_thumbnail: an expired entry is reported absent but
\* its file is not removed.
get_cached_thumbnail_keeps(fs, exists, now, checks, path, size, fault) ==
    LET dir == get_cache_dir(exists, fault)
        file == cache_file(path, unwrap_or(size, DEFAULT_SIZE))
        parsed == from_str(fs[file])
    IN  IF ~dir.ok THEN Outcome(fs, dir.exists, Err(dir.msg), 0)
        ELSE IF fs[file] = NoFile THEN Outcome(fs, dir.exists, Ok(None), 0)
        ELSE IF fault = "read" \/ ~IsUtf8(fs[file])
            THEN Outcome(fs, dir.exists, Err("Failed to read cache file"), 0)
        ELSE IF ~parsed.ok
            THEN Outcome(fs, dir.exists, Err("Failed to parse cache entry"), 0)
        ELSE IF Underflows(now, parsed.entry.created) /\ checks
            THEN Outcome(fs, dir.exists, Panic("attempt to subtract with overflow"), 0)
        ELSE IF age_exceeds(now, parsed.entry.created)
            THEN Outcome(fs, dir.exists, Ok(None), 0)
        ELSE Outcome(fs, dir.exists, Ok(Some(parsed.entry.thumbnail)), 0)

(***************************************************************************)
(* get_cached_thumbnail(path, size).  fault: a get_cache_dir fault, "read" *)
(* (read_to_string fails on a readable file), "remove" (remove_file        *)
(* fails).                                                                 *)
(***************************************************************************)
\* Mutant of get_cached_thumbnail: the hasher is seeded per process, so a
\* later run derives another key for the same path and size.
get_cached_thumbnail_seeded(fs, exists, now, checks, path, size, fault) ==
    LET dir == get_cache_dir(exists, fault)
        thumbnail_size == unwrap_or(size, DEFAULT_SIZE)
        file == IF processRun = 1 THEN cache_file(path, thumbnail_size)
                ELSE cache_file(IF path = PathA THEN PathB ELSE PathA, DEFAULT_SIZE)
        parsed == from_str(fs[file])
        created == parsed.entry.created
    IN  IF ~dir.ok THEN Outcome(fs, dir.exists, Err(dir.msg), 0)
        ELSE IF fs[file] = NoFile THEN Outcome(fs, dir.exists, Ok(None), 0)
        ELSE IF fault = "read" \/ ~IsUtf8(fs[file])
            THEN Outcome(fs, dir.exists, Err("Failed to read cache file"), 0)
        ELSE IF ~parsed.ok
            THEN Outcome(fs, dir.exists, Err("Failed to parse cache entry"), 0)
        ELSE IF Underflows(now, created) /\ checks
            THEN Outcome(fs, dir.exists, Panic("attempt to subtract with overflow"), 0)
        ELSE IF age_exceeds(now, created)
            THEN Outcome(remove_file(fs, file, fault = "remove"), dir.exists,
                         Ok(None), 0)
        ELSE Outcome(fs, dir.exists, Ok(Some(parsed.entry.thumbnail)), 0)

\* Mutant of get_cached_thumbnail: an entry older than the last change of
\* its image file is a miss.
get_cached_thumbnail_validating(fs, exists, now, checks, path, size, fault) ==
    LET dir == get_cache_dir(exists, fault)
        thumbnail_size == unwrap_or(size, DEFAULT_SIZE)
        file == cache_file(path, thumbnail_size)
        parsed == from_str(fs[file])
        created == parsed.entry.created
    IN  IF ~dir.ok THEN Outcome(fs, dir.exists, Err(dir.msg), 0)
        ELSE IF fs[file] = NoFile THEN Outcome(fs, dir.exists, Ok(None), 0)
        ELSE IF fault = "read" \/ ~IsUtf8(fs[file])
            THEN Outcome(fs, dir.exists, Err("Failed to read cache file"), 0)
        ELSE IF ~parsed.ok
            THEN Outcome(fs, dir.exists, Err("Failed to parse cache entry"), 0)
        ELSE IF Underflows(now, created) /\ checks
            THEN Outcome(fs, dir.exists, Panic("attempt to subtract with overflow"), 0)
        ELSE IF path \in DOMAIN sources /\ sources[path].modified >= created
            THEN Outcome(fs, dir.exists, Ok(None), 0)
        ELSE IF age_exceeds(now, created)
            THEN Outcome(remove_file(fs, file, fault = "remove"), dir.exists,
                         Ok(None), 0)
        ELSE Outcome(fs, dir.exists, Ok(Some(parsed.entry.thumbnail)), 0)

\* Mutant of get_cached_thumbnail: an expired entry is emptied, not removed.
get_cached_thumbnail_truncating(fs, exists, now, checks, path, size, fault) ==
    LET dir == get_cache_dir(exists, fault)
        thumbnail_size == unwrap_or(size, DEFAULT_SIZE)
        file == cache_file(path, thumbnail_size)
        parsed == from_str(fs[file])
        created == parsed.entry.created
    IN  IF ~dir.ok THEN Outcome(fs, dir.exists, Err(dir.msg), 0)
        ELSE IF fs[file] = NoFile THEN Outcome(fs, dir.exists, Ok(None), 0)
        ELSE IF fault = "read" \/ ~IsUtf8(fs[file])
            THEN Outcome(fs, dir.exists, Err("Failed to read cache file"), 0)
        ELSE IF ~parsed.ok
            THEN Outcome(fs, dir.exists, Err("Failed to parse cache entry"), 0)
        ELSE IF Underflows(now, created) /\ checks
            THEN Outcome(fs, dir.exists, Panic("attempt to subtract with overflow"), 0)
        ELSE IF age_exceeds(now, created)
            THEN Outcome([fs EXCEPT ![file] = GarbageText], dir.exists, Ok(None), 0)
        ELSE Outcome(fs, dir.exists, Ok(Some(parsed.entry.thumbnail)), 0)

get_cached_thumbnail(fs, exists, now, checks, path, size, fault) ==
    LET dir == get_cache_dir(exists, fault)
        thumbnail_size == unwrap_or(size, DEFAULT_SIZE)
        file == cache_file(path, thumbnail_size)
        parsed == from_str(fs[file])
        created == parsed.entry.created
    IN  IF ~dir.ok THEN Outcome(fs, dir.exists, Err(dir.msg), 0)
        ELSE IF fs[file] = NoFile THEN Outcome(fs, dir.exists, Ok(None), 0)
        ELSE IF fault = "read" \/ ~IsUtf8(fs[file])
            THEN Outcome(fs, dir.exists, Err("Failed to read cache file"), 0)
        ELSE IF ~parsed.ok
            THEN Outcome(fs, dir.exists, Err("Failed to parse cache entry"), 0)
        ELSE IF Underflows(now, created) /\ checks
            THEN Outcome(fs, dir.exists, Panic("attempt to subtract with overflow"), 0)
        ELSE IF age_exceeds(now, created)
            THEN Outcome(remove_file(fs, file, fault = "remove"), dir.exists,
                         Ok(None), 0)
        ELSE Outcome(fs, dir.exists, Ok(Some(parsed.entry.thumbnail)), 0)

\* Mutant of set_cached_thumbnail: the file is opened with create_new, so an
\* entry file that exists is left as it is.
set_cached_thumbnail_create_new(fs, exists, now, path, thumbnail, size, fault) ==
    LET dir == get_cache_dir(exists, fault)
        file == cache_file(path, unwrap_or(size, DEFAULT_SIZE))
    IN  IF ~dir.ok THEN Outcome(fs, dir.exists, Err(dir.msg), 0)
        ELSE IF fault = "open"
            THEN Outcome(fs, dir.exists, Err("Failed to write cache file"), 0)
        ELSE IF fs[file] # NoFile THEN Outcome(fs, dir.exists, Ok(None), 0)
        ELSE IF fault = "write"
            THEN Outcome([fs EXCEPT ![file] = GarbageText], dir.exists,
                         Err("Failed to write cache file"), 0)
        ELSE Outcome([fs EXCEPT ![file] = to_string(CacheEntry(thumbnail, now))],
                     dir.exists, Ok(None), 0)

\* Mutant of set_cached_thumbnail: the entries live in one shared index, so
\* a write that fails part-way damages every entry.
set_cached_thumbnail_index(fs, exists, now, path, thumbnail, size, fault) ==
    LET dir == get_cache_dir(exists, fault)
        file == cache_file(path, unwrap_or(size, DEFAULT_SIZE))
    IN  IF ~dir.ok THEN Outcome(fs, dir.exists, Err(dir.msg), 0)
        ELSE IF fault = "open"
            THEN Outcome(fs, dir.exists, Err("Failed to write cache file"), 0)
        ELSE IF fault = "write"
            THEN Outcome([f \in DOMAIN fs |-> IF fs[f] = NoFile /\ f # file
                                              THEN NoFile ELSE GarbageText],
                         dir.exists, Err("Failed to write cache file"), 0)
        ELSE Outcome([fs EXCEPT ![file] = to_string(CacheEntry(thumbnail, now))],
                     dir.exists, Ok(None), 0)

\* Mutant of set_cached_thumbnail: overwriting an entry keeps the creation
\* time of the entry it replaces.
set_cached_thumbnail_stale(fs, exists, now, path, thumbnail, size, fault) ==
    LET dir == get_cache_dir(exists, fault)
        file == cache_file(path, unwrap_or(size, DEFAULT_SIZE))
        old == from_str(fs[file])
        cache_entry == CacheEntry(thumbnail, IF old.ok THEN old.entry.created ELSE now)
    IN  IF ~dir.ok THEN Outcome(fs, dir.exists, Err(dir.msg), 0)
        ELSE IF fault = "open"
            THEN Outcome(fs, dir.exists, Err("Failed to write cache file"), 0)
        ELSE IF fault = "write"
            THEN Outcome([fs EXCEPT ![file] = GarbageText], dir.exists,
                         Err("Failed to write cache file"), 0)
        ELSE Outcome([fs EXCEPT ![file] = to_string(cache_entry)], dir.exists,
                     Ok(None), 0)

(***************************************************************************)
(* set_cached_thumbnail(path, thumbnail, size).  fault: a get_cache_dir    *)
(* fault, "open" (fs::write cannot create the file: nothing is written),   *)
(* "write" (fs::write fails after truncating the file).                    *)
(***************************************************************************)
set_cached_thumbnail(fs, exists, now, path, thumbnail, size, fault) ==
    LET dir == get_cache_dir(exists, fault)
        thumbnail_size == unwrap_or(size, DEFAULT_SIZE)
        file == cache_file(path, thumbnail_size)
        cache_entry == CacheEntry(thumbnail, now)
        cache_content == to_string(cache_entry)
    IN  IF ~dir.ok THEN Outcome(fs, dir.exists, Err(dir.msg), 0)
        ELSE IF fault = "open"
            THEN Outcome(fs, dir.exists, Err("Failed to write cache file"), 0)
        ELSE IF fault = "write"
            THEN Outcome([fs EXCEPT ![file] = GarbageText], dir.exists,
                         Err("Failed to write cache file"), 0)
        ELSE Outcome([fs EXCEPT ![file] = cache_content], dir.exists, Ok(None), 0)

(***************************************************************************)
(* clear_old_cache().  entries is the order in which read_dir yields the   *)
(* files of the directory.  fault is [kind, file]: a get_cache_dir fault,  *)
(* "stat" (cache_dir.exists() is false), "enumerate" (read_dir fails), or  *)
(* a failure on one file: "entry" (its directory entry is an Err), "read"  *)
(* (read_to_string fails on it), "remove" (remove_file fails on it).       *)
(***************************************************************************)
Fault(kind, file) == [kind |-> kind, file |-> file]

NoFault == Fault("none", OtherFile)

FaultOn(fault, kind, file) == fault.kind = kind /\ fault.file = file

\* Mutant of sweep_entry: the entry's creation time, not its age, is
\* compared with CACHE_DURATION.
sweep_entry_created(path, content, current_time, checks, fault) ==
    LET parsed == from_str(content)
    IN  IF FaultOn(fault, "entry", path) THEN "abort"
        ELSE IF path.ext # "json" THEN "skip"
        ELSE IF FaultOn(fault, "read", path) \/ ~IsUtf8(content) THEN "corrupt"
        ELSE IF ~parsed.ok THEN "skip"
        ELSE IF parsed.entry.created > CACHE_DURATION THEN "expired"
        ELSE "skip"

\* What the body of the loop does with one directory entry:
\*   "abort"   the entry is an Err: return Err
\*   "skip"    leave the file alone
\*   "expired" remove_file, counted if it succeeds
\*   "corrupt" remove_file, counted whether or not it succeeds
\*   "panic"   the age subtraction overflows in a build that checks
sweep_entry(path, content, current_time, checks, fault) ==
    LET parsed == from_str(content)
        created == parsed.entry.created
    IN  IF FaultOn(fault, "entry", path) THEN "abort"
        ELSE IF path.ext # "json" THEN "skip"
        ELSE IF FaultOn(fault, "read", path) \/ ~IsUtf8(content) THEN "corrupt"
        ELSE IF ~parsed.ok THEN "skip"
        ELSE IF Underflows(current_time, created) /\ checks THEN "panic"
        ELSE IF age_exceeds(current_time, created) THEN "expired"
        ELSE "skip"

\* Mutant of sweep_loop: an expired entry is counted but its file is not
\* removed.
RECURSIVE sweep_loop_counts(_, _, _, _, _, _)
sweep_loop_counts(entries, fs, removed_count, current_time, checks, fault) ==
    IF entries = <<>> THEN Outcome(fs, TRUE, Ok(None), removed_count)
    ELSE
    LET path == Head(entries)
        rest == Tail(entries)
        fails == FaultOn(fault, "remove", path)
        act == sweep_entry(path, fs[path], current_time, checks, fault)
    IN  CASE act = "abort" ->
                Outcome(fs, TRUE, Err("Failed to read directory entry"), removed_count)
          [] act = "panic" ->
                Outcome(fs, TRUE, Panic("attempt to subtract with overflow"),
                        removed_count)
          [] act = "expired" ->
                sweep_loop_counts(rest, fs, removed_count + 1, current_time, checks,
                                  fault)
          [] act = "corrupt" ->
                sweep_loop_counts(rest, remove_file(fs, path, fails), removed_count + 1,
                                  current_time, checks, fault)
          [] OTHER ->
                sweep_loop_counts(rest, fs, removed_count, current_time, checks, fault)

\* for entry in entries { ... }: the files left, the count so far.
RECURSIVE sweep_loop(_, _, _, _, _, _)
sweep_loop(entries, fs, removed_count, current_time, checks, fault) ==
    IF entries = <<>> THEN Outcome(fs, TRUE, Ok(None), removed_count)
    ELSE
    LET path == Head(entries)
        rest == Tail(entries)
        fails == FaultOn(fault, "remove", path)
        act == sweep_entry(path, fs[path], current_time, checks, fault)
    IN  CASE act = "abort" ->
                Outcome(fs, TRUE, Err("Failed to read directory entry"), removed_count)
          [] act = "panic" ->
                Outcome(fs, TRUE, Panic("attempt to subtract with overflow"),
                        removed_count)
          [] act = "expired" ->
                sweep_loop(rest, remove_file(fs, path, fails),
                           IF fails THEN removed_count ELSE removed_count + 1,
                           current_time, checks, fault)
          [] act = "corrupt" ->
                sweep_loop(rest, remove_file(fs, path, fails), removed_count + 1,
                           current_time, checks, fault)
          [] OTHER ->
                sweep_loop(rest, fs, removed_count, current_time, checks, fault)

clear_old_cache(fs, exists, now, checks, entries, fault) ==
    LET dir == get_cache_dir(exists, fault.kind)
    IN  IF ~dir.ok THEN Outcome(fs, dir.exists, Ok(None), 0)
        ELSE IF fault.kind = "stat" THEN Outcome(fs, dir.exists, Ok(None), 0)
        ELSE IF fault.kind = "enumerate"
            THEN Outcome(fs, dir.exists, Err("Failed to read cache directory"), 0)
        ELSE sweep_loop(entries, fs, 0, now, checks, fault)

(***************************************************************************)
(* get_cache_stats().  The HashMap it returns is the set of its (key,      *)
(* value) pairs; HashMap::new() is the empty set.  entries and fault are   *)
(* as for clear_old_cache; an entry that is an Err is passed over.         *)
(***************************************************************************)
\* current_time - cache_entry.created <= CACHE_DURATION, where the
\* subtraction returns: the wrapped difference exceeds CACHE_DURATION.
age_within(current_time, created) ==
    IF Underflows(current_time, created) THEN FALSE
    ELSE current_time - created <= CACHE_DURATION

\* stats.insert("total_files", ..); stats.insert("valid_files", ..)
StatsMap(total_files, valid_files) ==
    {<<"total_files", total_files>>, <<"valid_files", valid_files>>}

\* What the body of the loop does with one directory entry:
\*   "skip"    the entry is an Err, or the file is no .json file
\*   "total"   counted in total_files only
\*   "valid"   counted in total_files and in valid_files
\*   "panic"   the age subtraction overflows in a build that checks
stats_entry(path, content, current_time, checks, fault) ==
    LET parsed == from_str(content)
        created == parsed.entry.created
    IN  IF FaultOn(fault, "entry", path) THEN "skip"
        ELSE IF path.ext # "json" THEN "skip"
        ELSE IF FaultOn(fault, "read", path) \/ ~IsUtf8(content) THEN "total"
        ELSE IF ~parsed.ok THEN "total"
        ELSE IF Underflows(current_time, created) /\ checks THEN "panic"
        ELSE IF age_within(current_time, created) THEN "valid"
        ELSE "total"

\* for entry in entries { ... }: the two counters so far.
RECURSIVE stats_loop(_, _, _, _, _, _, _)
stats_loop(entries, fs, total_files, valid_files, current_time, checks, fault) ==
    IF entries = <<>> THEN Outcome(fs, TRUE, Ok(Some(StatsMap(total_files, valid_files))), 0)
    ELSE
    LET path == Head(entries)
        rest == Tail(entries)
        act == stats_entry(path, fs[path], current_time, checks, fault)
    IN  CASE act = "panic" ->
                Outcome(fs, TRUE, Panic("attempt to subtract with overflow"), 0)
          [] act = "total" ->
                stats_loop(rest, fs, total_files + 1, valid_files, current_time, checks,
                           fault)
          [] act = "valid" ->
                stats_loop(rest, fs, total_files + 1, valid_files + 1, current_time,
                           checks, fault)
          [] OTHER ->
                stats_loop(rest, fs, total_files, valid_files, current_time, checks,
                           fault)

\* Mutant of get_cache_stats: every file of the directory is counted.
get_cache_stats_all(fs, exists, now, checks, entries, fault) ==
    LET dir == get_cache_dir(exists, fault.kind)
        counted == stats_loop(entries, fs, 0, 0, now, checks, fault)
        total_files == (CHOOSE p \in counted.result.val.v : p[1] = "total_files")[2]
        valid_files == (CHOOSE p \in counted.result.val.v : p[1] = "valid_files")[2]
        others == Cardinality({i \in 1 .. Len(entries) : entries[i].ext # "json"})
    IN  IF ~dir.ok THEN Outcome(fs, dir.exists, Ok(Some({})), 0)
        ELSE IF fault.kind = "stat" THEN Outcome(fs, dir.exists, Ok(Some({})), 0)
        ELSE IF fault.kind = "enumerate"
            THEN Outcome(fs, dir.exists, Err("Failed to read cache directory"), 0)
        ELSE IF counted.result.tag # "Ok" THEN counted
        ELSE Outcome(fs, TRUE, Ok(Some(StatsMap(total_files + others, valid_files))), 0)

\* Mutant of get_cache_stats: the entries found expired are removed, as get
\* and the sweep do.
get_cache_stats_healing(fs, exists, now, checks, entries, fault) ==
    LET dir == get_cache_dir(exists, fault.kind)
        counted == stats_loop(entries, fs, 0, 0, now, checks, fault)
        swept == sweep_loop(entries, fs, 0, now, FALSE, NoFault)
    IN  IF ~dir.ok THEN Outcome(fs, dir.exists, Ok(Some({})), 0)
        ELSE IF fault.kind = "stat" THEN Outcome(fs, dir.exists, Ok(Some({})), 0)
        ELSE IF fault.kind = "enumerate"
            THEN Outcome(fs, dir.exists, Err("Failed to read cache directory"), 0)
        ELSE Outcome(swept.files, TRUE, counted.result, 0)

get_cache_stats(fs, exists, now, checks, entries, fault) ==
    LET dir == get_cache_dir(exists, fault.kind)
    IN  IF ~dir.ok THEN Outcome(fs, dir.exists, Ok(Some({})), 0)
        ELSE IF fault.kind = "stat" THEN Outcome(fs, dir.exists, Ok(Some({})), 0)
        ELSE IF fault.kind = "enumerate"
            THEN Outcome(fs, dir.exists, Err("Failed to read cache directory"), 0)
        ELSE stats_loop(entries, fs, 0, 0, now, checks, fault)

\* The orders in which read_dir may yield the files of a set.
Orders(S) ==
    {o \in [1 .. Cardinality(S) -> S] : \A i, j \in DOMAIN o : o[i] = o[j] => i = j}

(***************************************************************************)
(* The files the program may find in its cache directory when it starts:   *)
(* entries written by earlier runs (or by another machine, at any reading  *)
(* of its clock), and files damaged or put there by something else.        *)
(***************************************************************************)
InitContents ==
    {to_string(CacheEntry(<<"A">>, 1)),
     ObjectText(<< Member("created", JNum(CACHE_DURATION + 2)),
                   Member("thumbnail", JStr(<<"A">>)) >>),
     ObjectText(<< Member("thumbnail", JStr(<<"A">>)) >>),
     GarbageText,
     BinaryContent}

InitStores ==
    {fs \in [FileNames -> InitContents \cup {NoFile}] :
        /\ Cardinality(Present(fs)) <= MaxFiles
        /\ fs[OtherFile] \in {NoFile, GarbageText}}

\* The image files of the model: there are none while only the cache
\* commands are called.
NoSources == <<>>

\* No command runs concurrently with another.
NoRace == <<>>

(***************************************************************************)
(* The record of a command: its call, what it returned, and the directory  *)
(* it ran on.                                                              *)
(***************************************************************************)
Call(op, path, size, payload, time, fault, out, pre) ==
    [op |-> op, path |-> path, size |-> size, payload |-> payload, time |-> time,
     fault |-> fault, result |-> out.result, removed |-> out.removed, pre |-> pre,
     processRun |-> processRun, src |-> sources, force |-> FALSE, decoded |-> FALSE,
     io |-> {}]

NoCall ==
    [op |-> "none", path |-> <<>>, size |-> NoSize, payload |-> <<>>, time |-> 0,
     fault |-> NoFault, result |-> Ok(None), removed |-> 0, pre |-> EmptyDir,
     processRun |-> 0, src |-> NoSources, force |-> FALSE, decoded |-> FALSE,
     io |-> {}]

\* What the caller does: one command, or two in a row, the second only if
\* the first returned Ok.
Scripts ==
    {<<"get">>, <<"set">>, <<"sweep">>, <<"set", "get">>, <<"sweep", "sweep">>}

Init ==
    /\ clock \in ClockValues
    /\ dirExists \in BOOLEAN
    /\ files \in InitStores
    /\ dirExists = FALSE => files = EmptyDir
    /\ overflowChecks \in BOOLEAN
    /\ script \in Scripts
    /\ last = NoCall
    /\ prev = NoCall
    /\ processRun = 1
    /\ sources = NoSources
    /\ race = NoRace

Due(op) == script # <<>> /\ Head(script) = op

Record(call, out) ==
    /\ files' = out.files
    /\ dirExists' = out.exists
    /\ last' = call
    /\ prev' = last
    /\ script' = IF out.result.tag = "Ok" THEN Tail(script) ELSE <<>>
    /\ UNCHANGED <<clock, overflowChecks, processRun, sources, race>>

DirFaults == IF dirExists THEN {"none", "resolve"} ELSE {"none", "resolve", "create"}

GetCachedThumbnail ==
    /\ Due("get")
    /\ \E req \in Requests, fault \in DirFaults \cup {"read", "remove"} :
         LET path == req[1]
             size == req[2]
             out == get_cached_thumbnail(files, dirExists, clock, overflowChecks,
                                         path, size, fault)
         IN  Record(Call("get", path, size, <<>>, clock, Fault(fault, OtherFile),
                         out, files), out)

\* The directory of the model holds at most MaxFiles files.
HasRoom(path, size) ==
    \/ files[cache_file(path, unwrap_or(size, DEFAULT_SIZE))] # NoFile
    \/ Cardinality(Present(files)) < MaxFiles

SetCachedThumbnail ==
    /\ Due("set")
    /\ \E req \in Requests, thumbnail \in Payloads,
          fault \in DirFaults \cup {"open", "write"} :
         /\ HasRoom(req[1], req[2])
         /\ LET path == req[1]
                size == req[2]
                out == set_cached_thumbnail(files, dirExists, clock, path, thumbnail,
                                            size, fault)
            IN  Record(Call("set", path, size, thumbnail, clock, Fault(fault, OtherFile),
                            out, files), out)

SweepFaults ==
    {Fault(k, OtherFile) : k \in DirFaults \cup {"stat", "enumerate"}}
    \cup {Fault(k, f) : k \in {"entry", "read", "remove"}, f \in Present(files)}

ClearOldCache ==
    /\ Due("sweep")
    /\ \E entries \in Orders(Present(files)), fault \in SweepFaults :
         LET out == clear_old_cache(files, dirExists, clock, overflowChecks,
                                    entries, fault)
         IN  Record(Call("sweep", <<>>, NoSize, <<>>, clock, fault, out, files), out)

\* The system clock moves, forwards or backwards.
Tick ==
    /\ script # <<>>
    /\ clock' \in ClockValues \ {clock}
    /\ UNCHANGED <<dirExists, files, overflowChecks, script, last, prev, processRun, sources,
                   race>>

Next == GetCachedThumbnail \/ SetCachedThumbnail \/ ClearOldCache \/ Tick

Spec == Init /\ [][Next]_vars

(***************************************************************************)
(* The cache commands with get_cache_stats: the statistics asked alone and *)
(* after each of the other commands.                                       *)
(***************************************************************************)
StatsFaults ==
    {Fault(k, OtherFile) : k \in DirFaults \cup {"stat", "enumerate"}}
    \cup {Fault(k, f) : k \in {"entry", "read"}, f \in Present(files)}

GetCacheStats ==
    /\ Due("stats")
    /\ \E entries \in Orders(Present(files)), fault \in StatsFaults :
         LET out == get_cache_stats(files, dirExists, clock, overflowChecks,
                                    entries, fault)
         IN  Record(Call("stats", <<>>, NoSize, <<>>, clock, fault, out, files), out)

StatsScripts ==
    {<<"stats">>, <<"get", "stats">>, <<"set", "stats">>, <<"sweep", "stats">>}

\* The directories get_cache_stats starts from: as InitStores, but the file
\* that is not named *.json holds a record of an earlier run, and the text
\* that is not a record is the object without a created field.
StatsStores ==
    {fs \in [FileNames -> (InitContents \ {GarbageText}) \cup {NoFile}] :
        /\ Cardinality(Present(fs)) <= MaxFiles
        /\ fs[OtherFile] \in {NoFile, to_string(CacheEntry(<<"A">>, 1))}}

InitStats ==
    /\ clock \in ClockValues
    /\ dirExists \in BOOLEAN
    /\ files \in StatsStores
    /\ dirExists = FALSE => files = EmptyDir
    /\ overflowChecks \in BOOLEAN
    /\ script \in StatsScripts
    /\ last = NoCall
    /\ prev = NoCall
    /\ processRun = 1
    /\ sources = NoSources
    /\ race = NoRace

\* Every reading of the clock is an initial state, and the records found at
\* the start are older and younger than it; the clock does not move between
\* a command and the get_cache_stats that follows it.
NextStats ==
    GetCacheStats \/ GetCachedThumbnail \/ SetCachedThumbnail \/ ClearOldCache

SpecStats == InitStats /\ [][NextStats]_vars

(***************************************************************************)
(* The image files and the thumbnail commands.                             *)
(***************************************************************************)
\* What a path of the file system holds: nothing, a directory, or a regular
\* file with its bytes.  modified is the modification time in seconds since
\* the epoch; it is negative for a file stamped before 1970.
MissingFile == [kind |-> "missing", bytes |-> <<>>, modified |-> 0]

DirectoryAt(modified) == [kind |-> "dir", bytes |-> <<>>, modified |-> modified]

RegularFile(bytes, modified) == [kind |-> "file", bytes |-> bytes, modified |-> modified]

\* path.exists() && path.is_file()
is_file(file) == file.kind = "file"

\* path.exists() && path.is_dir()
is_dir(file) == file.kind = "dir"

\* The formats of the model: the four the application supports, and BMP for
\* the formats the image library knows besides them.
Formats == <<"jpeg", "png", "gif", "webp", "bmp">>

\* The leading bytes of a file of each format; in a WebP file the four
\* bytes after "RIFF" are a length.
Magic ==
    [jpeg |-> <<255, 216, 255>>,
     png |-> <<137, 80, 78, 71, 13, 10, 26, 10>>,
     gif |-> <<71, 73, 70, 56, 57, 97>>,
     webp |-> <<82, 73, 70, 70, 0, 0, 0, 0, 87, 69, 66, 80>>,
     bmp |-> <<66, 77>>]

has_magic(format, bytes) ==
    /\ Len(bytes) >= Len(Magic[format])
    /\ \A i \in 1 .. Len(Magic[format]) :
           \/ bytes[i] = Magic[format][i]
           \/ format = "webp" /\ i \in 5 .. 8

\* A decoded image: its dimensions, and pixels that names its content.
Bitmap(width, height, pixels) == [width |-> width, height |-> height, pixels |-> pixels]

\* The bytes of an image file of the model: the magic number, the
\* dimensions, the pixels of the first frame, and then data that a decoder
\* of the first frame does not read (further frames, metadata).
ImageBytes(format, bitmap, extra) ==
    Magic[format] \o <<bitmap.width, bitmap.height, bitmap.pixels>> \o extra

\* img.write_to(buffer, format)
encode(format, bitmap) == ImageBytes(format, bitmap, <<>>)

\* ImageReader::into_dimensions: the decoder of the format reads the
\* dimensions from the head of the file.
into_dimensions(format, bytes) ==
    LET m == Len(Magic[format])
    IN  IF /\ has_magic(format, bytes) /\ Len(bytes) >= m + 2
           /\ bytes[m + 1] >= 1 /\ bytes[m + 2] >= 1
        THEN Ok(Some(<<bytes[m + 1], bytes[m + 2]>>))
        ELSE Err("Format error")

\* ImageReader::decode: the decoder of the format decodes the first frame.
decode(format, bytes) ==
    LET m == Len(Magic[format])
    IN  IF into_dimensions(format, bytes).tag = "Ok" /\ Len(bytes) >= m + 3
        THEN Ok(Some(Bitmap(bytes[m + 1], bytes[m + 2], bytes[m + 3])))
        ELSE Err("Format error")

\* file.read(&mut buffer) into [0u8; IMAGE_HEADER_BUFFER_SIZE]
IMAGE_HEADER_BUFFER_SIZE == 16

read_header(bytes) ==
    [i \in 1 .. IMAGE_HEADER_BUFFER_SIZE |-> IF i <= Len(bytes) THEN bytes[i] ELSE 0]

\* image::guess_format(&buffer): the format whose magic number the buffer
\* starts with.
guess_format(buffer) ==
    LET found == {i \in 1 .. Len(Formats) : has_magic(Formats[i], buffer)}
    IN  IF found = {} THEN None ELSE Some(Formats[CHOOSE i \in found : TRUE])

\* "This is not an image"
TextBytes == <<84, 104, 105, 115, 32, 105, 115, 32, 110, 111, 116, 32, 97, 110, 32,
               105, 109, 97, 103, 101>>

\* A JPEG file of 4 x 2 pixels, and a file of text.
ImageFile(pixels, modified) == RegularFile(encode("jpeg", Bitmap(4, 2, pixels)), modified)

TextFile(modified) == RegularFile(TextBytes, modified)

\* path.extension(): the bytes after the last '.' of the file name, none
\* when the file name has no '.' or only a leading one.
RECURSIVE last_index(_, _)
last_index(bytes, b) ==
    IF bytes = <<>> THEN 0
    ELSE IF bytes[Len(bytes)] = b THEN Len(bytes)
    ELSE last_index(SubSeq(bytes, 1, Len(bytes) - 1), b)

file_name(path) == SubSeq(path, last_index(path, 47) + 1, Len(path))

extension(path) ==
    LET name == file_name(path)
        dot == last_index(name, 46)
    IN  IF dot <= 1 THEN None ELSE Some(SubSeq(name, dot + 1, Len(name)))

\* to_lowercase on ASCII letters.
to_lowercase(bytes) == [i \in 1 .. Len(bytes) |->
                           IF bytes[i] >= 65 /\ bytes[i] <= 90 THEN bytes[i] + 32
                           ELSE bytes[i]]

\* "jpg" | "jpeg" | "png" | "webp" | "gif"
SupportedExtensions ==
    { <<106, 112, 103>>, <<106, 112, 101, 103>>, <<112, 110, 103>>,
      <<119, 101, 98, 112>>, <<103, 105, 102>> }

is_supported_image(path) ==
    LET ext == extension(path)
    IN  ext.some /\ to_lowercase(ext.v) \in SupportedExtensions

\* Mutant of get_image_format: "jpeg" is not among the arms of the match.
get_image_format_jpg(path) ==
    LET ext == extension(path)
        lower == IF ext.some THEN to_lowercase(ext.v) ELSE <<>>
    IN  IF ~ext.some THEN None
        ELSE IF lower = <<106, 112, 103>> THEN Some("jpeg")
        ELSE IF lower = <<112, 110, 103>> THEN Some("png")
        ELSE IF lower = <<119, 101, 98, 112>> THEN Some("webp")
        ELSE IF lower = <<103, 105, 102>> THEN Some("gif")
        ELSE None

\* get_image_format(path): the arms of its match.
get_image_format(path) ==
    LET ext == extension(path)
        lower == IF ext.some THEN to_lowercase(ext.v) ELSE <<>>
    IN  IF ~ext.some THEN None
        ELSE IF lower \in {<<106, 112, 103>>, <<106, 112, 101, 103>>} THEN Some("jpeg")
        ELSE IF lower = <<112, 110, 103>> THEN Some("png")
        ELSE IF lower = <<119, 101, 98, 112>> THEN Some("webp")
        ELSE IF lower = <<103, 105, 102>> THEN Some("gif")
        ELSE None

\* The format ImageReader::open takes from the extension of the path; on
\* the supported extensions it is the one get_image_format names.
reader_format(path) ==
    LET ext == extension(path)
        lower == IF ext.some THEN to_lowercase(ext.v) ELSE <<>>
    IN  IF lower \in {<<106, 112, 103>>, <<106, 112, 101, 103>>} THEN "jpeg"
        ELSE IF lower = <<112, 110, 103>> THEN "png"
        ELSE IF lower = <<119, 101, 98, 112>> THEN "webp"
        ELSE IF lower = <<103, 105, 102>> THEN "gif"
        ELSE "bmp"

\* image::open(path): the decoder is chosen by the extension of the path,
\* not by the content of the file.
image_open(path, file) == decode(reader_format(path), file.bytes)

\* general_purpose::STANDARD.encode
Base64Alphabet ==
    << "A", "B", "C", "D", "E", "F", "G", "H", "I", "J", "K", "L", "M", "N", "O", "P",
       "Q", "R", "S", "T", "U", "V", "W", "X", "Y", "Z", "a", "b", "c", "d", "e", "f",
       "g", "h", "i", "j", "k", "l", "m", "n", "o", "p", "q", "r", "s", "t", "u", "v",
       "w", "x", "y", "z", "0", "1", "2", "3", "4", "5", "6", "7", "8", "9", "+", "/" >>

RECURSIVE base64_encode(_)
base64_encode(bytes) ==
    IF bytes = <<>> THEN <<>>
    ELSE LET n == Len(bytes)
             b1 == bytes[1]
             b2 == IF n >= 2 THEN bytes[2] ELSE 0
             b3 == IF n >= 3 THEN bytes[3] ELSE 0
         IN  << Base64Alphabet[(b1 \div 4) + 1],
                Base64Alphabet[((b1 % 4) * 16 + (b2 \div 16)) + 1],
                IF n >= 2 THEN Base64Alphabet[((b2 % 16) * 4 + (b3 \div 64)) + 1] ELSE "=",
                IF n >= 3 THEN Base64Alphabet[(b3 % 64) + 1] ELSE "=" >>
             \o base64_encode(SubSeq(bytes, 4, n))

\* (x as f64).round() of the quotient num / den: half away from zero.  On
\* the dimensions and sizes of the model the f64 product rounds as the
\* exact quotient does.
round(num, den) == (2 * num + den) \div (2 * den)

Max(a, b) == IF a >= b THEN a ELSE b

\* resize_dimensions(width, height, nwidth, nheight, false) of the image
\* library: the smaller of the two ratios, each side rounded and at least 1.
resize_dimensions(width, height, nwidth, nheight) ==
    IF nwidth * height <= nheight * width
    THEN <<Max(round(width * nwidth, width), 1), Max(round(height * nwidth, width), 1)>>
    ELSE <<Max(round(width * nheight, height), 1), Max(round(height * nheight, height), 1)>>

\* img.thumbnail(nwidth, nheight)
img_thumbnail(img, nwidth, nheight) ==
    LET dimensions == resize_dimensions(img.width, img.height, nwidth, nheight)
    IN  Bitmap(dimensions[1], dimensions[2], img.pixels)

\* What a command did with the content of files: "header" (the first bytes
\* were read), "read" (the file was read whole), "dimensions" and "decode"
\* (a decoder was run on it).
Done(result, io) == [result |-> result, io |-> io]

\* generate_thumbnail(path, size)
generate_thumbnail(path, file, size) ==
    LET img == image_open(path, file)
    IN  IF img.tag # "Ok" THEN Err("Failed to generate thumbnail")
        ELSE Ok(Some(base64_encode(encode("jpeg", img_thumbnail(img.val.v, size, size)))))

\* Mutant of generate_image_thumbnail: without a size the thumbnail is made
\* at 50.
generate_image_thumbnail_fifty(srcs, path, size) ==
    IF ~is_file(srcs[path]) THEN Done(Err("File not found"), {})
    ELSE IF ~is_supported_image(path) THEN Done(Err("Unsupported file format"), {})
    ELSE Done(generate_thumbnail(path, srcs[path], unwrap_or(size, 50)), {"decode"})

\* Mutant of generate_image_thumbnail: the requested size is ignored.
generate_image_thumbnail_default(srcs, path, size) ==
    IF ~is_file(srcs[path]) THEN Done(Err("File not found"), {})
    ELSE IF ~is_supported_image(path) THEN Done(Err("Unsupported file format"), {})
    ELSE Done(generate_thumbnail(path, srcs[path], DEFAULT_SIZE), {"decode"})

\* generate_image_thumbnail(path, size)
generate_image_thumbnail(srcs, path, size) ==
    IF ~is_file(srcs[path]) THEN Done(Err("File not found"), {})
    ELSE IF ~is_supported_image(path) THEN Done(Err("Unsupported file format"), {})
    ELSE Done(generate_thumbnail(path, srcs[path], unwrap_or(size, DEFAULT_SIZE)),
              {"decode"})

AppOutcome(out, result, decoded) ==
    [files |-> out.files, exists |-> out.exists, result |-> result,
     removed |-> 0, decoded |-> decoded]

(***************************************************************************)
(* The thumbnail request of the caller, which ties the commands together:  *)
(* unless force_regenerate, probe the cache and return a hit; otherwise    *)
(* validate and generate, store the payload, and return it.  fault is a    *)
(* fault of the store's write.                                             *)
(***************************************************************************)
get_or_create_thumbnail(fs, exists, srcs, now, checks, path, size, force, fault) ==
    LET probe == get_cached_thumbnail(fs, exists, now, checks, path, size, "none")
        hit == ~force /\ probe.result.tag = "Ok" /\ probe.result.val.some
        before == IF force THEN Outcome(fs, exists, Ok(None), 0) ELSE probe
        generation == generate_image_thumbnail(srcs, path, size)
        generated == generation.result
        stored == set_cached_thumbnail(before.files, before.exists, now, path,
                                       generated.val.v, size, fault)
    IN  IF hit THEN AppOutcome(probe, Ok(Some(probe.result.val.v)), FALSE)
        ELSE IF ~force /\ probe.result.tag = "Panic"
            THEN AppOutcome(probe, probe.result, FALSE)
        ELSE IF generated.tag # "Ok"
            THEN AppOutcome(before, generated, "decode" \in generation.io)
        ELSE IF stored.result.tag # "Ok" THEN AppOutcome(stored, stored.result, TRUE)
        ELSE AppOutcome(stored, generated, TRUE)

(***************************************************************************)
(* The application: thumbnail requests, the cache commands, image files    *)
(* that change, and restarts of the process.                               *)
(***************************************************************************)
AppScripts ==
    {<<"request", "request">>, <<"request", "modify", "request">>,
     <<"request", "restart", "request">>}

\* /a.jpg is an image; /b.jpg is missing, a directory or not an image.
AppSources ==
    {[p \in {PathA, PathB} |-> IF p = PathA THEN ImageFile(1, 0) ELSE b] :
        b \in {MissingFile, DirectoryAt(0), TextFile(0)}}

\* The cache directory is empty or holds the entry file of (/a.jpg, 30).
AppStores == {fs \in InitStores : Present(fs) \subseteq {cache_file(PathA, DEFAULT_SIZE)}}

InitApp ==
    /\ clock \in ClockValues
    /\ dirExists = TRUE
    /\ files \in AppStores
    /\ overflowChecks \in BOOLEAN
    /\ script \in AppScripts
    /\ last = NoCall
    /\ prev = NoCall
    /\ processRun = 1
    /\ sources \in AppSources
    /\ race = NoRace

Request ==
    /\ Due("request")
    /\ \E req \in Requests, force_regenerate \in BOOLEAN, fault \in {"none", "write"} :
         /\ HasRoom(req[1], req[2])
         /\ LET path == req[1]
                size == req[2]
                out == get_or_create_thumbnail(files, dirExists, sources, clock,
                                               overflowChecks, path, size,
                                               force_regenerate, fault)
            IN  Record([Call("request", path, size, <<>>, clock,
                             Fault(fault, OtherFile), out, files)
                           EXCEPT !.force = force_regenerate, !.decoded = out.decoded],
                       out)

\* Another program rewrites an image file: other pixels, or no image at all.
ModifySource ==
    /\ Due("modify")
    /\ \E path \in DOMAIN sources :
         /\ image_open(path, sources[path]).tag = "Ok"
         /\ \E new \in {ImageFile(image_open(path, sources[path]).val.v.pixels + 1, clock),
                        TextFile(clock)} :
              sources' = [sources EXCEPT ![path] = new]
    /\ script' = Tail(script)
    /\ UNCHANGED <<clock, dirExists, files, overflowChecks, last, prev, processRun, race>>

\* The application exits and is started again: the cache directory stays.
Restart ==
    /\ Due("restart")
    /\ processRun' = processRun + 1
    /\ script' = Tail(script)
    /\ UNCHANGED <<clock, dirExists, files, overflowChecks, last, prev, sources, race>>

NextApp == Request \/ ModifySource \/ Restart \/ Tick

SpecApp == InitApp /\ [][NextApp]_vars

(***************************************************************************)
(* The cache commands called for four image files, on a directory that     *)
(* starts empty: a set, then a get, with a restart of the process or a     *)
(* change of an image file in between.                                     *)
(***************************************************************************)
KeyFileNames == {cache_file(r[1], unwrap_or(r[2], DEFAULT_SIZE)) : r \in KeyRequests}

KeyScripts == {<<"set", "get">>, <<"set", "restart", "get">>, <<"set", "modify", "get">>}

KeySources == [p \in {PathA, PathB, PathC, PathD} |-> ImageFile(1, 0)]

InitKeys ==
    /\ clock \in ClockValues
    /\ dirExists = TRUE
    /\ files = [f \in KeyFileNames |-> NoFile]
    /\ overflowChecks \in BOOLEAN
    /\ script \in KeyScripts
    /\ last = NoCall
    /\ prev = NoCall
    /\ processRun = 1
    /\ sources = KeySources
    /\ race = NoRace

SetFor ==
    /\ Due("set")
    /\ \E req \in KeyRequests, thumbnail \in Payloads :
         LET out == set_cached_thumbnail(files, dirExists, clock, req[1], thumbnail,
                                         req[2], "none")
         IN  Record(Call("set", req[1], req[2], thumbnail, clock, NoFault, out, files),
                    out)

GetFor ==
    /\ Due("get")
    /\ \E req \in KeyRequests :
         LET out == get_cached_thumbnail(files, dirExists, clock, overflowChecks,
                                         req[1], req[2], "none")
         IN  Record(Call("get", req[1], req[2], <<>>, clock, NoFault, out, files), out)

NextKeys == SetFor \/ GetFor \/ ModifySource \/ Restart \/ Tick

SpecKeys == InitKeys /\ [][NextKeys]_vars

(***************************************************************************)
(* The cache commands running concurrently.  The commands are async and    *)
(* the runtime runs them on several threads, so the file system calls of   *)
(* one interleave with those of another.  race maps each running command   *)
(* to its position and its locals; one action is one file system call      *)
(* with the local computation that follows it.                             *)
(***************************************************************************)
Task(op, path, size, payload) ==
    [op |-> op, pc |-> "start", path |-> path, size |-> size, payload |-> payload,
     now |-> 0, entries |-> <<>>, removed |-> 0, deleted |-> {}, detached |-> FALSE,
     result |-> Ok(None)]

RECURSIVE digits(_)
digits(n) == IF n < 10 THEN 1 ELSE 1 + digits(n \div 10)

\* The bytes of "name":value
member_len(m) ==
    (IF m.name = "thumbnail" THEN 9 ELSE 7) + 3
    + (IF m.value.kind = "str" THEN Len(m.value.str) + 2 ELSE digits(m.value.num))

RECURSIVE members_len(_)
members_len(members) ==
    IF members = <<>> THEN 0 ELSE member_len(Head(members)) + members_len(Tail(members))

\* The length of a file: of a record, the bytes of its JSON text; text that
\* is no object is here the empty file that File::create leaves.
byte_len(content) ==
    IF content.kind = "text" /\ content.obj
    THEN 2 + members_len(content.members) + (Len(content.members) - 1)
    ELSE 0

\* write_all through a handle whose offset is 0.  Over a longer file the
\* tail of the old bytes stays after the new ones, and the text no longer
\* parses (trailing characters).
write_at_start(old, new) == IF byte_len(old) > byte_len(new) THEN GarbageText ELSE new

\* remove_file, on a file system where a file in use can be unlinked: the
\* handles open on it keep the unlinked file.
Unlink(r, file) ==
    [j \in DOMAIN r |->
        IF r[j].op = "set" /\ r[j].pc = "write" /\ cache_file(r[j].path, r[j].size) = file
        THEN [r[j] EXCEPT !.detached = TRUE]
        ELSE r[j]]

\* Two writers of one key and a reader of it; a sweep and a writer.
RaceTasks ==
    {<<Task("set", PathA, DEFAULT_SIZE, p), Task("set", PathA, DEFAULT_SIZE, q),
       Task("get", PathA, DEFAULT_SIZE, <<>>)>> : p \in Payloads, q \in Payloads}
    \cup {<<Task("sweep", <<>>, DEFAULT_SIZE, <<>>),
            Task("set", PathA, DEFAULT_SIZE, p)>> : p \in Payloads}

InitRace ==
    /\ clock \in ClockValues
    /\ dirExists = TRUE
    /\ files \in {EmptyDir,
                  [EmptyDir EXCEPT ![cache_file(PathA, DEFAULT_SIZE)] =
                                       to_string(CacheEntry(<<"A">>, 1))]}
    /\ overflowChecks \in BOOLEAN
    /\ script = <<>>
    /\ last = NoCall
    /\ prev = NoCall
    /\ processRun = 1
    /\ sources = NoSources
    /\ race \in RaceTasks

At(i, op, pc) == race[i].op = op /\ race[i].pc = pc

Step(i, pc, fs, tasks) ==
    /\ files' = fs
    /\ race' = [tasks EXCEPT ![i].pc = pc]
    /\ UNCHANGED <<clock, dirExists, overflowChecks, script, last, prev, processRun,
                   sources>>

Finish(i, result, fs, tasks) == Step(i, "done", fs, [tasks EXCEPT ![i].result = result])

\* set_cached_thumbnail up to the stamp (lines 103-115).
SetStart ==
    \E i \in DOMAIN race :
        /\ At(i, "set", "start")
        /\ Step(i, "open", files, [race EXCEPT ![i].now = clock])

\* fs::write opens the file with create and truncate (line 120).
SetOpen ==
    \E i \in DOMAIN race :
        /\ At(i, "set", "open")
        /\ Step(i, "write",
                [files EXCEPT ![cache_file(race[i].path, race[i].size)] = GarbageText],
                [race EXCEPT ![i].detached = FALSE])

\* fs::write writes the content (line 120).
SetWrite ==
    \E i \in DOMAIN race :
        /\ At(i, "set", "write")
        /\ LET file == cache_file(race[i].path, race[i].size)
               content == to_string(CacheEntry(race[i].payload, race[i].now))
           IN  Finish(i, Ok(None),
                      IF race[i].detached THEN files
                      ELSE [files EXCEPT ![file] = write_at_start(files[file], content)],
                      race)

\* cache_file.exists() (lines 71-73).
GetExists ==
    \E i \in DOMAIN race :
        /\ At(i, "get", "start")
        /\ IF files[cache_file(race[i].path, race[i].size)] = NoFile
           THEN Finish(i, Ok(None), files, race)
           ELSE Step(i, "read", files, race)

\* read_to_string, from_str and the age test (lines 75-87).
GetRead ==
    \E i \in DOMAIN race :
        /\ At(i, "get", "read")
        /\ LET content == files[cache_file(race[i].path, race[i].size)]
               parsed == from_str(content)
           IN  IF content = NoFile \/ ~IsUtf8(content)
                   THEN Finish(i, Err("Failed to read cache file"), files, race)
               ELSE IF ~parsed.ok
                   THEN Finish(i, Err("Failed to parse cache entry"), files, race)
               ELSE IF Underflows(clock, parsed.entry.created) /\ overflowChecks
                   THEN Finish(i, Panic("attempt to subtract with overflow"), files, race)
               ELSE IF age_exceeds(clock, parsed.entry.created)
                   THEN Step(i, "remove", files, race)
               ELSE Finish(i, Ok(Some(parsed.entry.thumbnail)), files, race)

\* let _ = fs::remove_file(&cache_file) (line 89).
GetRemove ==
    \E i \in DOMAIN race :
        /\ At(i, "get", "remove")
        /\ LET file == cache_file(race[i].path, race[i].size)
           IN  Finish(i, Ok(None), remove_file(files, file, FALSE),
                      Unlink([race EXCEPT ![i].deleted = @ \cup {files[file]}], file))

\* clear_old_cache up to read_dir (lines 128-145).
SweepStart ==
    \E i \in DOMAIN race :
        /\ At(i, "sweep", "start")
        /\ \E entries \in Orders(Present(files)) :
              IF entries = <<>> THEN Finish(i, Ok(None), files, race)
              ELSE Step(i, "read", files,
                        [race EXCEPT ![i].now = clock, ![i].entries = entries])

\* One turn of the loop up to the decision (lines 148-155, 162).
SweepRead ==
    \E i \in DOMAIN race :
        /\ At(i, "sweep", "read")
        /\ LET path == Head(race[i].entries)
               act == IF files[path] = NoFile THEN "corrupt"
                      ELSE sweep_entry(path, files[path], race[i].now, overflowChecks,
                                       NoFault)
               rest == [race EXCEPT ![i].entries = Tail(@)]
           IN  IF act = "panic"
                   THEN Finish(i, Panic("attempt to subtract with overflow"), files, race)
               ELSE IF act \in {"expired", "corrupt"} THEN Step(i, "remove", files, race)
               ELSE IF Tail(race[i].entries) = <<>> THEN Finish(i, Ok(None), files, rest)
               ELSE Step(i, "read", files, rest)

\* fs::remove_file(&path) of the loop (lines 156, 164).
SweepRemove ==
    \E i \in DOMAIN race :
        /\ At(i, "sweep", "remove")
        /\ LET path == Head(race[i].entries)
               after == Unlink([race EXCEPT ![i].entries = Tail(@),
                                            ![i].removed = @ + 1,
                                            ![i].deleted = @ \cup {files[path]}], path)
           IN  IF Tail(race[i].entries) = <<>>
               THEN Finish(i, Ok(None), remove_file(files, path, FALSE), after)
               ELSE Step(i, "read", remove_file(files, path, FALSE), after)

NextRace ==
    \/ SetStart \/ SetOpen \/ SetWrite
    \/ GetExists \/ GetRead \/ GetRemove
    \/ SweepStart \/ SweepRead \/ SweepRemove

SpecRace == InitRace /\ [][NextRace]_vars

(***************************************************************************)
(* The file commands: load_image, handle_dropped_file, the two thumbnail   *)
(* commands and get_folder_images, each called once on a file system with  *)
(* one folder.                                                             *)
(***************************************************************************)
\* get_image_dimensions(path)
get_image_dimensions(path, file) == into_dimensions(reader_format(path), file.bytes)

\* "gif"
GifExtension == <<103, 105, 102>>

\* Mutant of load_image_as_base64: the extension is compared as written.
load_image_as_base64_exact(path, file) ==
    LET ext == extension(path)
        img == image_open(path, file)
        format == get_image_format(path)
    IN  IF ext.some /\ ext.v = GifExtension
            THEN Done(Ok(Some(base64_encode(file.bytes))), {"read"})
        ELSE IF img.tag # "Ok" THEN Done(Err("Failed to load image"), {"decode"})
        ELSE Done(Ok(Some(base64_encode(
                      encode(IF format.some THEN format.v ELSE "jpeg", img.val.v)))),
                  {"decode"})

\* load_image_as_base64(path)
load_image_as_base64(path, file) ==
    LET ext == extension(path)
        img == image_open(path, file)
        format == get_image_format(path)
    IN  IF ext.some /\ to_lowercase(ext.v) = GifExtension
            THEN Done(Ok(Some(base64_encode(file.bytes))), {"read"})
        ELSE IF img.tag # "Ok" THEN Done(Err("Failed to load image"), {"decode"})
        ELSE Done(Ok(Some(base64_encode(
                      encode(IF format.some THEN format.v ELSE "jpeg", img.val.v)))),
                  {"decode"})

\* extension().and_then(to_str).unwrap_or("unknown").to_lowercase()
format_name(path) ==
    IF extension(path).some THEN to_lowercase(extension(path).v)
    ELSE <<117, 110, 107, 110, 111, 119, 110>>

ImageData(path, base64, width, height, format) ==
    [path |-> path, base64 |-> base64, width |-> width, height |-> height,
     format |-> format]

\* Mutant of load_image: the extension is checked before the file.
load_image_extension_first(srcs, path) ==
    LET base64_data == load_image_as_base64(path, srcs[path])
        dimensions == get_image_dimensions(path, srcs[path])
    IN  IF ~is_supported_image(path) THEN Done(Err("Unsupported file format"), {})
        ELSE IF ~is_file(srcs[path]) THEN Done(Err("File not found"), {})
        ELSE IF base64_data.result.tag # "Ok" THEN base64_data
        ELSE IF dimensions.tag # "Ok"
            THEN Done(Err("Failed to get image dimensions"),
                      base64_data.io \cup {"dimensions"})
        ELSE Done(Ok(Some(ImageData(path, base64_data.result.val.v, dimensions.val.v[1],
                                    dimensions.val.v[2], format_name(path)))),
                  base64_data.io \cup {"dimensions"})

\* load_image(path)
load_image(srcs, path) ==
    LET base64_data == load_image_as_base64(path, srcs[path])
        dimensions == get_image_dimensions(path, srcs[path])
    IN  IF ~is_file(srcs[path]) THEN Done(Err("File not found"), {})
        ELSE IF ~is_supported_image(path) THEN Done(Err("Unsupported file format"), {})
        ELSE IF base64_data.result.tag # "Ok" THEN base64_data
        ELSE IF dimensions.tag # "Ok"
            THEN Done(Err("Failed to get image dimensions"),
                      base64_data.io \cup {"dimensions"})
        ELSE Done(Ok(Some(ImageData(path, base64_data.result.val.v, dimensions.val.v[1],
                                    dimensions.val.v[2], format_name(path)))),
                  base64_data.io \cup {"dimensions"})

\* validate_image_header(path)
validate_image_header(file) ==
    IF guess_format(read_header(file.bytes)).some THEN Ok(None)
    ELSE Err("Failed to detect valid image format")

ImageInfo(path, filename, size, modified, format) ==
    [path |-> path, filename |-> filename, size |-> size, modified |-> modified,
     format |-> format]

\* Mutant of get_image_info: the header of the file is not looked at.
get_image_info_unvalidated(path, file) ==
    IF file.modified < 0 THEN Done(Err("Failed to convert time"), {})
    ELSE Done(Ok(Some(ImageInfo(path, file_name(path), Len(file.bytes), file.modified,
                                format_name(path)))), {})

\* get_image_info(path): duration_since(UNIX_EPOCH) fails on a modification
\* time before the epoch.
get_image_info(path, file) ==
    IF file.modified < 0 THEN Done(Err("Failed to convert time"), {})
    ELSE IF validate_image_header(file).tag # "Ok"
        THEN Done(validate_image_header(file), {"header"})
    ELSE Done(Ok(Some(ImageInfo(path, file_name(path), Len(file.bytes), file.modified,
                                format_name(path)))), {"header"})

\* handle_dropped_file(path)
handle_dropped_file(srcs, path) ==
    IF ~is_file(srcs[path]) THEN Done(Err("File not found"), {})
    ELSE IF ~is_supported_image(path) THEN Done(Err("Unsupported file format"), {})
    ELSE get_image_info(path, srcs[path])

\* Mutant of validate_image_file: a path that is no regular file is an
\* error, as in the other file commands.
validate_image_file_strict(srcs, path) ==
    IF ~is_file(srcs[path]) THEN Done(Err("File not found"), {})
    ELSE Done(Ok(Some(is_supported_image(path))), {})

\* validate_image_file(path)
validate_image_file(srcs, path) ==
    Done(Ok(Some(srcs[path].kind # "missing" /\ is_file(srcs[path])
                 /\ is_supported_image(path))), {})

ThumbnailWithDimensions(thumbnail_base64, original_width, original_height) ==
    [thumbnail_base64 |-> thumbnail_base64, original_width |-> original_width,
     original_height |-> original_height]

\* generate_thumbnail_with_dimensions(path, size)
generate_thumbnail_with_dimensions(srcs, path, size) ==
    LET dimensions == get_image_dimensions(path, srcs[path])
        thumbnail_base64 == generate_thumbnail(path, srcs[path], size)
    IN  IF ~is_file(srcs[path]) THEN Done(Err("File not found"), {})
        ELSE IF ~is_supported_image(path) THEN Done(Err("Unsupported file format"), {})
        ELSE IF dimensions.tag # "Ok"
            THEN Done(Err("Failed to get image dimensions"), {"dimensions"})
        ELSE IF thumbnail_base64.tag # "Ok"
            THEN Done(thumbnail_base64, {"dimensions", "decode"})
        ELSE Done(Ok(Some(ThumbnailWithDimensions(thumbnail_base64.val.v,
                                                  dimensions.val.v[1],
                                                  dimensions.val.v[2]))),
                  {"dimensions", "decode"})

\* path.parent()
parent(path) == SubSeq(path, 1, last_index(path, 47) - 1)

\* Mutant of walk_dir: no max_depth, so the walk descends into
\* subdirectories.
walk_dir_deep(srcs, folder) ==
    {p \in DOMAIN srcs :
        /\ srcs[p].kind # "missing" /\ Len(p) > Len(folder)
        /\ SubSeq(p, 1, Len(folder) + 1) = folder \o <<47>>}

\* WalkDir::new(folder).max_depth(1): the entries of the folder itself (the
\* folder, which the walk yields first, is not a file).
walk_dir(srcs, folder) ==
    {p \in DOMAIN srcs : srcs[p].kind # "missing" /\ parent(p) = folder}

\* a.filename.cmp(&b.filename): byte-wise order of strings.
RECURSIVE cmp_le(_, _)
cmp_le(a, b) ==
    IF a = <<>> THEN TRUE
    ELSE IF b = <<>> THEN FALSE
    ELSE IF a[1] # b[1] THEN a[1] < b[1]
    ELSE cmp_le(Tail(a), Tail(b))

\* images.sort_by(...): a stable sort.
RECURSIVE sort_by_filename(_)
sort_by_filename(images) ==
    IF images = <<>> THEN <<>>
    ELSE LET n == Len(images)
             sorted == sort_by_filename(SubSeq(images, 1, n - 1))
             x == images[n]
             k == Cardinality({i \in 1 .. Len(sorted) : cmp_le(sorted[i].filename, x.filename)})
         IN  SubSeq(sorted, 1, k) \o <<x>> \o SubSeq(sorted, k + 1, Len(sorted))

\* The loop of get_folder_images over the entries of the walk.
RECURSIVE collect_images(_, _)
collect_images(srcs, entries) ==
    IF entries = <<>> THEN <<>>
    ELSE LET path == Head(entries)
             info == get_image_info(path, srcs[path])
         IN  (IF is_file(srcs[path]) /\ is_supported_image(path) /\ info.result.tag = "Ok"
              THEN <<info.result.val.v>> ELSE <<>>)
             \o collect_images(srcs, Tail(entries))

\* What the loop read of the files it looked at.
scan_io(srcs, entries) ==
    UNION {get_image_info(entries[i], srcs[entries[i]]).io :
             i \in {k \in 1 .. Len(entries) :
                       is_file(srcs[entries[k]]) /\ is_supported_image(entries[k])}}

\* Mutant of get_folder_images: the list is returned as collected.
get_folder_images_unsorted(srcs, path, entries) ==
    IF ~is_dir(srcs[path]) THEN Done(Err("Invalid folder path"), {})
    ELSE Done(Ok(Some(collect_images(srcs, entries))), scan_io(srcs, entries))

\* Mutant of get_folder_images: a path that is no folder has no images.
get_folder_images_lenient(srcs, path, entries) ==
    IF ~is_dir(srcs[path]) THEN Done(Ok(Some(<<>>)), {})
    ELSE Done(Ok(Some(sort_by_filename(collect_images(srcs, entries)))),
              scan_io(srcs, entries))

\* get_folder_images(path); entries is the order in which the walk yields
\* the entries of the folder.
get_folder_images(srcs, path, entries) ==
    IF ~is_dir(srcs[path]) THEN Done(Err("Invalid folder path"), {})
    ELSE Done(Ok(Some(sort_by_filename(collect_images(srcs, entries)))),
              scan_io(srcs, entries))

\* "/d", "/d/b.jpg", "/d/A.PNG", "/d/c.GiF", "/d/n.txt", "/d/s",
\* "/d/s/x.png" and "/m".
FolderD == <<47, 100>>

FileB == <<47, 100, 47, 98, 46, 106, 112, 103>>

FileA == <<47, 100, 47, 65, 46, 80, 78, 71>>

FileC == <<47, 100, 47, 99, 46, 71, 105, 70>>

FileN == <<47, 100, 47, 110, 46, 116, 120, 116>>

PathS == <<47, 100, 47, 115>>

FileX == <<47, 100, 47, 115, 47, 120, 46, 112, 110, 103>>

PathM == <<47, 109>>

FsPaths == {FolderD, FileB, FileA, FileC, FileN, PathS, FileX, PathM}

\* What /d/b.jpg may be: missing, a JPEG, text, a PNG, a BMP, a JPEG cut
\* off after its dimensions, a JPEG stamped before 1970.
ContentsB ==
    {MissingFile,
     RegularFile(ImageBytes("jpeg", Bitmap(4, 3, 1), <<>>), 5),
     TextFile(5),
     RegularFile(ImageBytes("png", Bitmap(3, 7, 2), <<>>), 5),
     RegularFile(ImageBytes("bmp", Bitmap(4, 4, 2), <<>>), 5),
     RegularFile(Magic["jpeg"] \o <<4, 3>>, 5),
     RegularFile(ImageBytes("jpeg", Bitmap(200, 1, 1), <<>>), -1)}

\* The file systems of the model.  /d is a folder; /d/A.PNG is missing or
\* a PNG; /d/c.GiF is missing, a GIF of two frames or text; /d/n.txt is
\* missing, text or a JPEG; /d/s is missing, a folder that holds x.png, or
\* a JPEG; /m is missing.
FileSystems ==
    {[p \in FsPaths |->
        CASE p = FolderD -> DirectoryAt(5)
          [] p = FileB -> b
          [] p = FileA -> a
          [] p = FileC -> c
          [] p = FileN -> n
          [] p = PathS -> s
          [] p = FileX -> IF is_dir(s)
                          THEN RegularFile(ImageBytes("png", Bitmap(1, 1, 3), <<>>), 5)
                          ELSE MissingFile
          [] OTHER -> MissingFile] :
        b \in ContentsB,
        a \in {MissingFile, RegularFile(ImageBytes("png", Bitmap(3, 7, 2), <<>>), 5)},
        c \in {MissingFile, RegularFile(ImageBytes("gif", Bitmap(4, 2, 4), <<9, 9>>), 5),
               TextFile(5)},
        n \in {MissingFile, TextFile(5),
               RegularFile(ImageBytes("jpeg", Bitmap(4, 3, 1), <<>>), 5)},
        s \in {MissingFile, DirectoryAt(5),
               RegularFile(ImageBytes("jpeg", Bitmap(4, 3, 1), <<>>), 5)}}

\* Paths to classify: "x.JPG", "a.Jpeg", "a.webp", "t.bmp", "t" and ".jpg",
\* besides those of the file system.
SamplePaths ==
    FsPaths \cup {<<120, 46, 74, 80, 71>>, <<97, 46, 74, 112, 101, 103>>, <<97, 46, 119, 101, 98, 112>>, <<116, 46, 98, 109, 112>>, <<116>>, <<46, 106, 112, 103>>}

\* The sizes asked of the thumbnail commands.
ThumbnailSizes == {0, 1, 30, 50}

FileScripts ==
    {<<"load">>, <<"drop">>, <<"thumbnail">>, <<"dimensions">>, <<"folder">>,
     <<"classify">>, <<"base64">>, <<"validate">>}

InitFiles ==
    /\ clock = 1
    /\ dirExists = TRUE
    /\ files = EmptyDir
    /\ overflowChecks = FALSE
    /\ script \in FileScripts
    /\ last = NoCall
    /\ prev = NoCall
    /\ processRun = 1
    /\ sources \in FileSystems
    /\ race = NoRace

\* The call and what it returned; given is what else the call was given
\* (the entries of the folder, in the order of the walk).
Return(op, path, size, given, out) ==
    /\ last' = [Call(op, path, size, given, clock, NoFault,
                     Outcome(files, dirExists, out.result, 0), files)
                   EXCEPT !.io = out.io, !.decoded = "decode" \in out.io]
    /\ prev' = last
    /\ script' = Tail(script)
    /\ UNCHANGED <<clock, dirExists, files, overflowChecks, processRun, sources, race>>

LoadImage ==
    /\ Due("load")
    /\ \E path \in FsPaths : Return("load", path, NoSize, <<>>, load_image(sources, path))

HandleDroppedFile ==
    /\ Due("drop")
    /\ \E path \in FsPaths :
         Return("drop", path, NoSize, <<>>, handle_dropped_file(sources, path))

GenerateImageThumbnail ==
    /\ Due("thumbnail")
    /\ \E path \in FsPaths, size \in {NoSize} \cup {SomeSize(n) : n \in ThumbnailSizes} :
         Return("thumbnail", path, size, <<>>, generate_image_thumbnail(sources, path, size))

GenerateThumbnailWithDimensions ==
    /\ Due("dimensions")
    /\ \E path \in FsPaths, size \in ThumbnailSizes :
         Return("dimensions", path, SomeSize(size), <<>>,
                generate_thumbnail_with_dimensions(sources, path, size))

GetFolderImages ==
    /\ Due("folder")
    /\ \E path \in {FolderD, PathS, FileB, PathM} :
         \E entries \in Orders(walk_dir(sources, path)) :
             Return("folder", path, NoSize, entries,
                    get_folder_images(sources, path, entries))

\* load_image_as_base64, called as load_image calls it: on an existing
\* file with a supported extension.
LoadImageAsBase64 ==
    /\ Due("base64")
    /\ \E path \in FsPaths :
         /\ is_file(sources[path]) /\ is_supported_image(path)
         /\ Return("base64", path, NoSize, <<>>,
                   load_image_as_base64(path, sources[path]))

ValidateImageFile ==
    /\ Due("validate")
    /\ \E path \in FsPaths :
         Return("validate", path, NoSize, <<>>, validate_image_file(sources, path))

\* is_supported_image and get_image_format, applied to a path.
Classify ==
    /\ Due("classify")
    /\ \E path \in SamplePaths :
         Return("classify", path, NoSize, <<>>,
                Done(Ok(Some(<<is_supported_image(path), get_image_format(path)>>)), {}))

NextFiles ==
    \/ LoadImage \/ HandleDroppedFile \/ GenerateImageThumbnail
    \/ GenerateThumbnailWithDimensions \/ GetFolderImages \/ Classify
    \/ LoadImageAsBase64 \/ ValidateImageFile

SpecFiles == InitFiles /\ [][NextFiles]_vars

(***************************************************************************)
(* The commands that take an optional size: a record is put and looked up, *)
(* or a thumbnail is generated, with and without the size.                 *)
(***************************************************************************)
SizeScripts == {<<"set", "get">>, <<"thumbnail">>}

\* The file systems in which only /d/b.jpg varies.
SizeSources ==
    {fs \in FileSystems :
        /\ fs[FileA] # MissingFile /\ fs[FileC] = MissingFile
        /\ fs[FileN] = MissingFile /\ fs[PathS] = MissingFile}

InitSizes ==
    /\ clock \in ClockValues
    /\ dirExists = TRUE
    /\ files = EmptyDir
    /\ overflowChecks \in BOOLEAN
    /\ script \in SizeScripts
    /\ last = NoCall
    /\ prev = NoCall
    /\ processRun = 1
    /\ sources \in SizeSources
    /\ race = NoRace

NextSizes ==
    SetCachedThumbnail \/ GetCachedThumbnail \/ GenerateImageThumbnail \/ Tick

SpecSizes == InitSizes /\ [][NextSizes]_vars

(***************************************************************************)
(* Vocabulary of the properties.                                           *)
(***************************************************************************)
\* The entry file a get or set call addresses.
FileOf(c) == cache_file(c.path, unwrap_or(c.size, DEFAULT_SIZE))

ReturnedOk(c) == c.result.tag = "Ok"

\* The environment injected no failure into the call.
FaultFree(c) == c.fault.kind = "none"

EntryFiles == {f \in FileNames : f.ext = "json"}

\* A record: a file whose content parses as a cache entry.
IsRecord(content) == IsUtf8(content) /\ from_str(content).ok

EntryOf(content) == from_str(content).entry

EscapedPayload == <<QUOTE, "B", BACKSLASH>>

(***************************************************************************)
(* C1.  Round trip: set_cached_thumbnail(path, payload, size) that returns *)
(* Ok at time t, followed with no command in between by                    *)
(* get_cached_thumbnail(path, size) at a time in t .. t + CACHE_DURATION,  *)
(* with no I/O failure injected into the get, returns Ok(Some(payload)).   *)
(***************************************************************************)
C1_RoundTrip ==
    ( /\ last.op = "get" /\ prev.op = "set"
      /\ ReturnedOk(prev) /\ FaultFree(last)
      /\ last.path = prev.path /\ last.size = prev.size
      /\ prev.time <= last.time /\ last.time <= prev.time + CACHE_DURATION )
    => last.result = Ok(Some(prev.payload))

\* A payload that needs escaping, read back at the last second of its life.
C1_Witness ==
    /\ last.op = "get" /\ prev.op = "set"
    /\ ReturnedOk(prev) /\ FaultFree(last)
    /\ last.path = prev.path /\ last.size = prev.size
    /\ last.time = prev.time + CACHE_DURATION
    /\ prev.payload = EscapedPayload
    /\ last.result = Ok(Some(EscapedPayload))

(***************************************************************************)
(* C2.  Expiry boundary of get, with no I/O failure injected: on a record  *)
(* with created = now - CACHE_DURATION - 1 it returns None and the file is *)
(* gone; on a record with created = now - CACHE_DURATION + 1 it returns    *)
(* Some(thumbnail) and the file is unchanged.                              *)
(***************************************************************************)
C2_ExpiryBoundary ==
    ( /\ last.op = "get" /\ FaultFree(last) /\ IsRecord(last.pre[FileOf(last)]) )
    => LET f == FileOf(last)
           e == EntryOf(last.pre[f])
       IN  /\ e.created + CACHE_DURATION + 1 = last.time
               => last.result = Ok(None) /\ files[f] = NoFile
           /\ e.created + CACHE_DURATION = last.time + 1
               => last.result = Ok(Some(e.thumbnail)) /\ files[f] = last.pre[f]

\* A get that found a record one second past the window and removed it.
C2_Witness ==
    /\ last.op = "get" /\ FaultFree(last) /\ IsRecord(last.pre[FileOf(last)])
    /\ EntryOf(last.pre[FileOf(last)]).created + CACHE_DURATION + 1 = last.time
    /\ last.result = Ok(None)
    /\ files[FileOf(last)] = NoFile

\* The other side of the boundary: one second before the end of the window.
C2_WitnessFresh ==
    /\ last.op = "get" /\ FaultFree(last) /\ IsRecord(last.pre[FileOf(last)])
    /\ EntryOf(last.pre[FileOf(last)]).created + CACHE_DURATION = last.time + 1
    /\ last.result.val.some

(***************************************************************************)
(* C3.  Corrupt self-heal on get: when the file of the requested key       *)
(* exists but is not a record, get returns Ok(None) and the file is gone.  *)
(***************************************************************************)
C3_CorruptSelfHeal ==
    ( /\ last.op = "get" /\ FaultFree(last)
      /\ last.pre[FileOf(last)] # NoFile /\ ~IsRecord(last.pre[FileOf(last)]) )
    => last.result = Ok(None) /\ files[FileOf(last)] = NoFile

(***************************************************************************)
(* C4.  put overwrites and stamps: after set_cached_thumbnail(path,        *)
(* payload, size) returned Ok at time t, the file of the key is a record   *)
(* whose thumbnail is payload and whose created is t, whatever the file    *)
(* held before.                                                            *)
(***************************************************************************)
C4_PutOverwritesAndStamps ==
    ( last.op = "set" /\ ReturnedOk(last) )
    => LET c == files[FileOf(last)]
       IN  /\ IsRecord(c)
           /\ EntryOf(c).thumbnail = last.payload
           /\ EntryOf(c).created = last.time

\* A set that replaced a record stamped at another time.
C4_Witness ==
    /\ last.op = "set" /\ ReturnedOk(last)
    /\ IsRecord(last.pre[FileOf(last)])
    /\ EntryOf(last.pre[FileOf(last)]).created # last.time
    /\ last.payload = EscapedPayload
    /\ EntryOf(files[FileOf(last)]).created = last.time

(***************************************************************************)
(* C5.  Sweep removes expired entries: when clear_old_cache enumerated the *)
(* directory at time t and returned Ok, and no remove_file failed, no      *)
(* record with t - created > CACHE_DURATION is left.                       *)
(***************************************************************************)
SweptAt(c) == c.op = "sweep" /\ ReturnedOk(c) /\ c.fault.kind \in {"none", "read"}

C5_SweepRemovesExpired ==
    SweptAt(last)
    => \A f \in EntryFiles :
           IsRecord(files[f])
           => ~(last.time - EntryOf(files[f]).created > CACHE_DURATION)

\* A sweep that removed a record one second past the window.
C5_Witness ==
    /\ SweptAt(last)
    /\ \E f \in EntryFiles :
          /\ IsRecord(last.pre[f])
          /\ last.time - EntryOf(last.pre[f]).created = CACHE_DURATION + 1
          /\ files[f] = NoFile

(***************************************************************************)
(* C6.  Sweep removes corrupt entries: when clear_old_cache ran to         *)
(* completion, no entry file that is not a record is left.                 *)
(***************************************************************************)
C6_SweepRemovesCorrupt ==
    ( last.op = "sweep" /\ ReturnedOk(last) /\ FaultFree(last) )
    => \A f \in EntryFiles : files[f] # NoFile => IsRecord(files[f])

(***************************************************************************)
(* C7.  Sweep frame: clear_old_cache leaves every record with              *)
(* now - created <= CACHE_DURATION in the directory, unchanged.            *)
(***************************************************************************)
C7_SweepFrame ==
    ( last.op = "sweep" /\ FaultFree(last) )
    => \A f \in EntryFiles :
           ( /\ IsRecord(last.pre[f])
             /\ last.time - EntryOf(last.pre[f]).created <= CACHE_DURATION )
           => files[f] = last.pre[f]

(***************************************************************************)
(* C8.  Sweep idempotence: of two runs of clear_old_cache in a row at the  *)
(* same clock time, both returning Ok with no failure injected, the second *)
(* removes nothing: the directory is as the first left it and the second   *)
(* run's count is 0.                                                       *)
(***************************************************************************)
C8_SweepIdempotent ==
    ( /\ last.op = "sweep" /\ prev.op = "sweep"
      /\ ReturnedOk(prev) /\ FaultFree(prev)
      /\ ReturnedOk(last) /\ FaultFree(last)
      /\ last.time = prev.time )
    => files = last.pre /\ last.removed = 0

\* A second run after a first that removed something and left something.
C8_Witness ==
    /\ last.op = "sweep" /\ prev.op = "sweep"
    /\ ReturnedOk(prev) /\ FaultFree(prev)
    /\ ReturnedOk(last) /\ FaultFree(last)
    /\ last.time = prev.time
    /\ prev.removed > 0
    /\ Present(files) # {}
    /\ last.removed = 0

(***************************************************************************)
(* C9.  Sweep tolerates a missing or inaccessible cache directory: when    *)
(* the directory cannot be resolved, does not exist or cannot be           *)
(* enumerated, clear_old_cache returns Ok with nothing removed.            *)
(***************************************************************************)
C9_SweepToleratesDirectory ==
    ( last.op = "sweep"
      /\ last.fault.kind \in {"resolve", "create", "stat", "enumerate"} )
    => ReturnedOk(last) /\ last.removed = 0 /\ files = last.pre

(***************************************************************************)
(* C10.  Sweep degrades gracefully per entry: a failure on one entry (its  *)
(* directory entry cannot be read, its content cannot be read, its removal *)
(* fails) does not abort the sweep: the call returns Ok and every other    *)
(* entry that is expired or unreadable has been removed.  Stated for       *)
(* directories that hold no record stamped after the sweep's clock time.   *)
(***************************************************************************)
NoneFromFuture(c) ==
    \A f \in EntryFiles : IsRecord(c.pre[f]) => EntryOf(c.pre[f]).created <= c.time

C10_SweepDegradesPerEntry ==
    ( /\ last.op = "sweep"
      /\ last.fault.kind \in {"entry", "read", "remove"}
      /\ NoneFromFuture(last) )
    => /\ ReturnedOk(last)
       /\ \A g \in EntryFiles \ {last.fault.file} :
              ( \/ ~IsUtf8(last.pre[g]) /\ last.pre[g] # NoFile
                \/ /\ IsRecord(last.pre[g])
                   /\ last.time - EntryOf(last.pre[g]).created > CACHE_DURATION )
              => files[g] = NoFile

(***************************************************************************)
(* C11.  Sweep reports its count: clear_old_cache returns the number of    *)
(* files it removed, the number of files present before the call and       *)
(* absent after it.                                                        *)
(***************************************************************************)
RemovedBy(c) == {f \in FileNames : c.pre[f] # NoFile /\ files[f] = NoFile}

C11_SweepReportsCount ==
    ( last.op = "sweep" /\ FaultFree(last) /\ ReturnedOk(last) )
    => last.result = Ok(Some(Cardinality(RemovedBy(last))))

(***************************************************************************)
(* C15.  put frame: set_cached_thumbnail for a key, whether it returns Ok  *)
(* or fails part-way, leaves the file of every other key as it was.        *)
(***************************************************************************)
C15_PutFrame ==
    last.op = "set"
    => \A f \in FileNames \ {FileOf(last)} : files[f] = last.pre[f]

\* A set that failed after truncating its own file, next to another entry.
C15_Witness ==
    /\ last.op = "set" /\ last.fault.kind = "write"
    /\ files[FileOf(last)] # last.pre[FileOf(last)]
    /\ \E f \in EntryFiles \ {FileOf(last)} :
          IsRecord(last.pre[f]) /\ files[f] = last.pre[f]

(***************************************************************************)
(* C16.  get frame: get_cached_thumbnail creates no file, leaves the file  *)
(* of every other key as it was, leaves the directory unchanged when the   *)
(* requested key has no file or a record with now - created <=             *)
(* CACHE_DURATION, and otherwise at most removes the file of its key.      *)
(***************************************************************************)
C16_GetFrame ==
    last.op = "get"
    => LET own == FileOf(last)
       IN  /\ \A f \in FileNames : last.pre[f] = NoFile => files[f] = NoFile
           /\ \A f \in FileNames \ {own} : files[f] = last.pre[f]
           /\ files[own] \in {last.pre[own], NoFile}
           /\ ( \/ last.pre[own] = NoFile
                \/ /\ IsRecord(last.pre[own])
                   /\ last.time - EntryOf(last.pre[own]).created <= CACHE_DURATION )
              => files = last.pre

(***************************************************************************)
(* C12.  Key determinism: the key of (path, size) is the same in every     *)
(* call and in every run of the process: a record written by               *)
(* set_cached_thumbnail(path, payload, size) is the record that the next   *)
(* get_cached_thumbnail(path, size) probes, in the same run or in a later  *)
(* one, so that within the window the get returns Ok(Some(payload)).       *)
(***************************************************************************)
C12_KeyDeterminism ==
    ( /\ last.op = "get" /\ prev.op = "set"
      /\ ReturnedOk(prev) /\ FaultFree(last)
      /\ last.path = prev.path /\ last.size = prev.size
      /\ prev.processRun <= last.processRun
      /\ prev.time <= last.time /\ last.time <= prev.time + CACHE_DURATION )
    => /\ FileOf(last) = FileOf(prev)
       /\ last.pre[FileOf(last)] = to_string(CacheEntry(prev.payload, prev.time))
       /\ last.result = Ok(Some(prev.payload))

\* A record written in the first run and read back in the second.
C12_Witness ==
    /\ last.op = "get" /\ prev.op = "set"
    /\ ReturnedOk(prev)
    /\ last.path = prev.path /\ last.size = prev.size
    /\ prev.processRun = 1 /\ last.processRun = 2
    /\ last.result = Ok(Some(prev.payload))

(***************************************************************************)
(* C13.  Key separation: requests that differ in path or in size have      *)
(* different keys, so a get never returns the payload that a set stored    *)
(* for another (path, size).                                               *)
(***************************************************************************)
C13_KeySeparation ==
    ( /\ last.op = "get" /\ prev.op = "set" /\ ReturnedOk(prev)
      /\ <<last.path, unwrap_or(last.size, DEFAULT_SIZE)>>
           # <<prev.path, unwrap_or(prev.size, DEFAULT_SIZE)>> )
    => /\ FileOf(last) # FileOf(prev)
       /\ last.result # Ok(Some(prev.payload))

(***************************************************************************)
(* C14.  Accepted staleness: after set_cached_thumbnail(path, payload,     *)
(* size) returned Ok at time t and the image file at path was changed, the *)
(* next get_cached_thumbnail(path, size) at a time not before t returns    *)
(* Ok(Some(payload)) up to t + CACHE_DURATION and Ok(None) after it.       *)
(***************************************************************************)
SourceChanged(c, d) == c.path \in DOMAIN c.src /\ c.src[c.path] # d.src[c.path]

C14_AcceptedStaleness ==
    ( /\ last.op = "get" /\ prev.op = "set"
      /\ ReturnedOk(prev) /\ FaultFree(last)
      /\ last.path = prev.path /\ last.size = prev.size
      /\ SourceChanged(prev, last)
      /\ prev.time <= last.time )
    => IF last.time <= prev.time + CACHE_DURATION
       THEN last.result = Ok(Some(prev.payload))
       ELSE last.result = Ok(None)

\* The image changed after the set; the old payload is returned at the last
\* second of the window.
C14_Witness ==
    /\ last.op = "get" /\ prev.op = "set" /\ ReturnedOk(prev)
    /\ last.path = prev.path /\ last.size = prev.size
    /\ SourceChanged(prev, last)
    /\ last.src[last.path].modified > prev.time
    /\ last.time = prev.time + CACHE_DURATION
    /\ last.result = Ok(Some(prev.payload))

\* The image changed after the set; one second past the window the entry is
\* gone.
C14_WitnessExpired ==
    /\ last.op = "get" /\ prev.op = "set" /\ ReturnedOk(prev)
    /\ last.path = prev.path /\ last.size = prev.size
    /\ SourceChanged(prev, last)
    /\ last.time = prev.time + CACHE_DURATION + 1
    /\ last.result = Ok(None)
    /\ files[FileOf(last)] = NoFile

(***************************************************************************)
(* C19.  Miss path stores, hit path skips the decoder.  A thumbnail        *)
(* request without force_regenerate for a supported image file, whose      *)
(* entry file is absent, not a record or expired, and whose store write    *)
(* does not fail, decodes the image, returns its thumbnail and leaves a    *)
(* record of it stamped with the time of the request.  The next request    *)
(* for the same (path, size), without force_regenerate and within the      *)
(* window of the first, returns the same payload, does not decode and      *)
(* writes nothing.                                                         *)
(***************************************************************************)
SizeOf(c) == unwrap_or(c.size, DEFAULT_SIZE)

ValidSource(c) ==
    /\ is_file(c.src[c.path]) /\ is_supported_image(c.path)
    /\ image_open(c.path, c.src[c.path]).tag = "Ok"

Generated(c) == generate_thumbnail(c.path, c.src[c.path], SizeOf(c)).val.v

Miss(c) ==
    LET content == c.pre[FileOf(c)]
    IN  \/ content = NoFile
        \/ ~IsRecord(content)
        \/ /\ c.time >= EntryOf(content).created
           /\ c.time - EntryOf(content).created > CACHE_DURATION

StoredBy(c) == files[FileOf(c)] = to_string(CacheEntry(Generated(c), c.time))

C19_MissStoresHitSkips ==
    /\ ( /\ last.op = "request" /\ ~last.force /\ FaultFree(last)
         /\ Miss(last) /\ ValidSource(last) )
       => /\ last.decoded
          /\ last.result = Ok(Some(Generated(last)))
          /\ StoredBy(last)
    /\ ( /\ last.op = "request" /\ prev.op = "request"
         /\ ReturnedOk(prev) /\ prev.decoded
         /\ last.path = prev.path /\ last.size = prev.size /\ ~last.force
         /\ prev.time <= last.time /\ last.time <= prev.time + CACHE_DURATION )
       => /\ ~last.decoded
          /\ last.result = prev.result
          /\ files = last.pre

\* A request that missed and generated, and the same request at the last
\* second of the window.
C19_Witness ==
    /\ last.op = "request" /\ prev.op = "request"
    /\ ReturnedOk(prev) /\ prev.decoded /\ ~prev.force /\ Miss(prev)
    /\ last.path = prev.path /\ last.size = prev.size /\ ~last.force
    /\ last.time = prev.time + CACHE_DURATION
    /\ ~last.decoded
    /\ last.result = Ok(Some(Generated(prev)))

\* A miss on an entry file that is not a record.
C19_WitnessCorrupt ==
    /\ last.op = "request" /\ ~last.force /\ FaultFree(last)
    /\ last.pre[FileOf(last)] # NoFile /\ ~IsRecord(last.pre[FileOf(last)])
    /\ last.decoded /\ StoredBy(last)

(***************************************************************************)
(* C20.  force_regenerate bypasses the cache: a thumbnail request with     *)
(* force_regenerate that returns Ok has decoded the image, returns the     *)
(* thumbnail of the image as it is now and leaves a record of it stamped   *)
(* with the time of the request, whatever the entry file held; and it      *)
(* returns Ok whenever the image is a supported image file and the store   *)
(* write does not fail.                                                    *)
(***************************************************************************)
C20_ForceRegenerate ==
    ( last.op = "request" /\ last.force )
    => /\ ReturnedOk(last)
           => /\ last.decoded
              /\ last.result = Ok(Some(Generated(last)))
              /\ StoredBy(last)
       /\ (ValidSource(last) /\ FaultFree(last)) => ReturnedOk(last)

\* A forced request that found the fresh record of the request before it,
\* made from the image before it was changed.
C20_Witness ==
    /\ last.op = "request" /\ last.force /\ ReturnedOk(last)
    /\ prev.op = "request" /\ ReturnedOk(prev)
    /\ last.path = prev.path /\ last.size = prev.size
    /\ last.time = prev.time
    /\ IsRecord(last.pre[FileOf(last)])
    /\ last.result # prev.result
    /\ EntryOf(files[FileOf(last)]).thumbnail = Generated(last)

(***************************************************************************)
(* C17.  Concurrent writes are whole-entry overwrites: when two            *)
(* set_cached_thumbnail calls for one (path, size) and a concurrent        *)
(* get_cached_thumbnail for it have all returned, the entry file is the    *)
(* complete record of one of the two sets, and the get returned Ok with    *)
(* no payload or with a complete payload: one of the two written or the    *)
(* one the file held before.                                               *)
(***************************************************************************)
Writers == {i \in DOMAIN race : race[i].op = "set"}

Readers == {i \in DOMAIN race : race[i].op = "get"}

AllDone == \A i \in DOMAIN race : race[i].pc = "done"

RecordOf(t) == to_string(CacheEntry(t.payload, t.now))

C17_WholeEntryWrites ==
    ( race # NoRace /\ AllDone /\ Readers # {} )
    => /\ \E w \in Writers :
             files[cache_file(race[w].path, race[w].size)] = RecordOf(race[w])
       /\ \A g \in Readers :
             \/ race[g].result = Ok(None)
             \/ \E w \in Writers : race[g].result = Ok(Some(race[w].payload))
             \/ race[g].result = Ok(Some(<<"A">>))

(***************************************************************************)
(* C18.  Sweep racing put: a clear_old_cache that runs concurrently with a *)
(* set_cached_thumbnail never deletes the record that the set wrote with   *)
(* the current time as its stamp: a record it deletes is past the age      *)
(* threshold.                                                              *)
(***************************************************************************)
Sweepers == {i \in DOMAIN race : race[i].op = "sweep"}

C18_SweepRacingPut ==
    \A i \in Sweepers :
        \A content \in race[i].deleted :
            IsRecord(content)
            => race[i].now - EntryOf(content).created > CACHE_DURATION

(***************************************************************************)
(* C21.  No cache write on failure: a thumbnail request that ends in an    *)
(* error of the generation (file not found, unsupported format, decode     *)
(* failure) leaves the cache directory exactly as it was before the        *)
(* request.                                                                *)
(***************************************************************************)
GenerationErrors ==
    {"File not found", "Unsupported file format", "Failed to generate thumbnail"}

FailedGeneration(c) ==
    c.op = "request" /\ c.result.tag = "Err" /\ c.result.msg \in GenerationErrors

C21_WitnessKept ==
    /\ FailedGeneration(last) /\ last.result.msg = "File not found"
    /\ Present(last.pre) # {}
    /\ files = last.pre

(***************************************************************************)
(* Properties of the file commands.                                        *)
(***************************************************************************)
SourceOf(c) == c.src[c.path]

ValidHeader(file) == guess_format(read_header(file.bytes)).some

HeaderErrors ==
    {"Failed to open image file", "Failed to read image header",
     "Failed to detect valid image format"}

\* The file of the call exists and has a supported extension, and its
\* first bytes are those of no image format.
BadHeader(c) ==
    is_file(SourceOf(c)) /\ is_supported_image(c.path) /\ ~ValidHeader(SourceOf(c))

\* C22: generate_image_thumbnail, generate_thumbnail_with_dimensions and
\* load_image, called on a file with a supported extension whose header is
\* that of no image format, fail with the error of the header validation
\* and never invoke the decoder.
C22_FormatGate ==
    last.op \in {"thumbnail", "dimensions", "load"} /\ BadHeader(last)
        => /\ last.result.tag = "Err"
           /\ last.result.msg \in HeaderErrors
           /\ last.io \cap {"decode", "dimensions"} = {}

\* The part of C22 the three commands do keep: the call fails.
C22_Rejected ==
    last.op \in {"thumbnail", "dimensions", "load"} /\ BadHeader(last)
        => last.result.tag = "Err"

\* The same, with the command that does validate the header.
C22_DroppedFileGate ==
    last.op = "drop" /\ BadHeader(last)
        => /\ last.result.tag = "Err"
           /\ last.result.msg \in HeaderErrors
           /\ last.io \cap {"decode", "dimensions"} = {}

\* The descriptors a call returned: the elements of the list of
\* get_folder_images, the value of handle_dropped_file.
Descriptors(c) ==
    IF c.result.tag # "Ok" THEN {}
    ELSE IF c.op = "folder" THEN {c.result.val.v[i] : i \in 1 .. Len(c.result.val.v)}
    ELSE IF c.op = "drop" THEN {c.result.val.v}
    ELSE {}

\* C23: every ImageInfo returned by get_folder_images or handle_dropped_file
\* describes a file whose header is that of an image format, and the
\* header was read to find that out; none comes from the extension alone.
C23_DescriptorInvariant ==
    \A info \in Descriptors(last) :
        /\ is_file(last.src[info.path])
        /\ ValidHeader(last.src[info.path])
        /\ "header" \in last.io

\* A scan that returned a descriptor and left out a file of the folder that
\* has a supported extension and no image header.
C23_Witness ==
    /\ last.op = "folder" /\ Descriptors(last) # {}
    /\ \E p \in walk_dir(last.src, last.path) :
          /\ is_file(last.src[p]) /\ is_supported_image(p) /\ ~ValidHeader(last.src[p])
          /\ \A info \in Descriptors(last) : info.path # p

\* A dropped file that was described.
C23_WitnessDropped ==
    last.op = "drop" /\ Descriptors(last) # {}

\* The regular files located directly in the folder that have a supported
\* extension and the header of an image.
Qualifying(srcs, folder) ==
    {p \in DOMAIN srcs :
        /\ parent(p) = folder /\ is_file(srcs[p])
        /\ is_supported_image(p) /\ ValidHeader(srcs[p])}

\* The paths a scan listed, in the order of the list.
Listed(c) == [i \in 1 .. Len(c.result.val.v) |-> c.result.val.v[i].path]

Range(seq) == {seq[i] : i \in 1 .. Len(seq)}

\* C24: for an existing folder get_folder_images returns Ok with exactly
\* one element for each regular file directly in the folder that has a
\* supported extension and a valid image header, and nothing else.
C24_FolderScan ==
    last.op = "folder" /\ is_dir(SourceOf(last))
        => /\ last.result.tag = "Ok"
           /\ Range(Listed(last)) = Qualifying(last.src, last.path)
           /\ Len(Listed(last)) = Cardinality(Qualifying(last.src, last.path))

\* C24 as the code has it: the files listed are those of C24 whose
\* modification time is not before the epoch, the others being skipped
\* like the corrupted ones.
C24_FolderScanAmended ==
    last.op = "folder" /\ is_dir(SourceOf(last))
        => LET described == {p \in Qualifying(last.src, last.path) :
                               last.src[p].modified >= 0}
           IN  /\ last.result.tag = "Ok"
               /\ Range(Listed(last)) = described
               /\ Len(Listed(last)) = Cardinality(described)

\* A scan of a folder that holds an image, a text file with a supported
\* extension, a file with another extension and a subdirectory with an
\* image in it, and lists some but not all of its files.
C24_Witness ==
    /\ last.op = "folder" /\ last.result.tag = "Ok" /\ Len(Listed(last)) >= 2
    /\ is_file(last.src[FileC]) /\ ~ValidHeader(last.src[FileC])
    /\ is_file(last.src[FileN]) /\ ValidHeader(last.src[FileN])
    /\ is_file(last.src[FileX])

\* A scan that left out an image stamped before the epoch.
C24_WitnessSkipped ==
    /\ last.op = "folder" /\ last.result.tag = "Ok"
    /\ \E p \in Qualifying(last.src, last.path) : p \notin Range(Listed(last))

\* C25: get_folder_images on a path that does not exist or is no directory
\* returns Err("Invalid folder path"); Ok with an empty list is returned
\* only for an existing directory in which the scan finds no image.
C25_InvalidFolder ==
    last.op = "folder"
        => /\ ~is_dir(SourceOf(last)) => last.result = Err("Invalid folder path")
           /\ last.result = Ok(Some(<<>>))
                => /\ is_dir(SourceOf(last))
                   /\ \A p \in Qualifying(last.src, last.path) :
                         last.src[p].modified < 0

\* A scan of a path that is missing.
C25_Witness ==
    last.op = "folder" /\ SourceOf(last).kind = "missing"
    /\ last.result = Err("Invalid folder path")

\* A scan of a path that is a regular file.
C25_WitnessFile ==
    last.op = "folder" /\ is_file(SourceOf(last))
    /\ last.result = Err("Invalid folder path")

\* A scan of a directory that holds files and no image.
C25_WitnessEmpty ==
    /\ last.op = "folder" /\ last.result = Ok(Some(<<>>))
    /\ walk_dir(last.src, last.path) # {}

\* a <= b on strings, as Rust's Ord for str has it: byte by byte, a proper
\* prefix first.
StrLe(a, b) ==
    \/ \E k \in 1 .. Len(a) :
          /\ k <= Len(b) /\ a[k] < b[k]
          /\ \A j \in 1 .. k - 1 : a[j] = b[j]
    \/ Len(a) <= Len(b) /\ \A j \in 1 .. Len(a) : a[j] = b[j]

\* C26: the list get_folder_images returns is in ascending order of
\* filename, whatever the order in which the directory was enumerated.
C26_ListingOrder ==
    last.op = "folder" /\ last.result.tag = "Ok"
        => \A i \in 1 .. Len(last.result.val.v) - 1 :
              StrLe(last.result.val.v[i].filename, last.result.val.v[i + 1].filename)

\* A scan to which the walk gave c.GiF before A.PNG and that listed A.PNG,
\* b.jpg and c.GiF, in this order: the byte order of the names, in which
\* the capital comes first.
C26_Witness ==
    /\ last.op = "folder" /\ last.result.tag = "Ok"
    /\ Listed(last) = <<FileA, FileB, FileC>>
    /\ \E i, j \in 1 .. Len(last.payload) :
          i < j /\ last.payload[i] = FileC /\ last.payload[j] = FileA

\* The lower-case form of an ASCII string: the letters A to Z, the bytes 65
\* to 90, become a to z, the bytes 97 to 122.
Lower(str) ==
    [i \in 1 .. Len(str) |-> IF str[i] \in 65 .. 90 THEN str[i] + 32 ELSE str[i]]

\* The path has an extension: its last component has a dot that is not its
\* first byte, and the extension is what follows the last dot.
HasExtension(path, ext) ==
    \E k \in 2 .. Len(path) :
        /\ path[k] = 46 /\ path[k - 1] # 47
        /\ SubSeq(path, k + 1, Len(path)) = ext
        /\ \A j \in k + 1 .. Len(path) : path[j] \notin {46, 47}

\* C27: is_supported_image(path) is true exactly when the path has an
\* extension whose lower-case form is jpg, jpeg, png, webp or gif; it reads
\* no file; and get_image_format(path) is Some exactly on those paths.
C27_SupportedExtensions ==
    last.op = "classify"
        => LET supported == last.result.val.v[1]
               format == last.result.val.v[2]
           IN  /\ supported =
                     \E k \in 1 .. Len(last.path) :
                         /\ HasExtension(last.path, SubSeq(last.path, k, Len(last.path)))
                         /\ Lower(SubSeq(last.path, k, Len(last.path)))
                                \in {<<106, 112, 103>>, <<106, 112, 101, 103>>, <<112, 110, 103>>, <<119, 101, 98, 112>>, <<103, 105, 102>>}
               /\ format.some = supported
               /\ last.io = {}
               /\ last.path \in {<<120, 46, 74, 80, 71>>, <<97, 46, 74, 112, 101, 103>>, FileC} => supported
               /\ last.path \in {<<116, 46, 98, 109, 112>>, FileN, <<116>>, <<46, 106, 112, 103>>, PathS} => ~supported

\* "a.Jpeg" was classified: supported, and of the JPEG format.
C27_Witness ==
    /\ last.op = "classify" /\ last.path = <<97, 46, 74, 112, 101, 103>>
    /\ last.result.val.v = <<TRUE, Some("jpeg")>>

\* "t.bmp" was classified: not supported, of no format.
C27_WitnessRejected ==
    /\ last.op = "classify" /\ last.path = <<116, 46, 98, 109, 112>>
    /\ last.result.val.v = <<FALSE, None>>

\* The messages with which a command fails on a file it has tried to read
\* or decode.
LoadErrors ==
    {"Failed to load image", "Failed to get image dimensions",
     "Failed to generate thumbnail", "Failed to convert time"} \cup HeaderErrors

\* C28: load_image, handle_dropped_file, generate_image_thumbnail and
\* generate_thumbnail_with_dimensions answer "File not found" for a path
\* that is missing or no regular file, whatever its extension; "Unsupported
\* file format", with nothing read, for a file with an unsupported
\* extension; an error of loading or decoding only for a file with a
\* supported extension; and every failure is an Err with a message.
C28_ErrorPrecedence ==
    last.op \in {"load", "drop", "thumbnail", "dimensions"}
        => /\ ~is_file(SourceOf(last))
                => last.result = Err("File not found") /\ last.io = {}
           /\ is_file(SourceOf(last)) /\ ~is_supported_image(last.path)
                => last.result = Err("Unsupported file format") /\ last.io = {}
           /\ last.result.tag = "Err" /\ last.result.msg \in LoadErrors
                => is_file(SourceOf(last)) /\ is_supported_image(last.path)
           /\ last.result.tag \in {"Ok", "Err"}
           /\ last.result.tag = "Err"
                => last.result.msg \in
                       {"File not found", "Unsupported file format"} \cup LoadErrors

\* A command called on n.txt, which holds a JPEG: rejected for its
\* extension, unread.
C28_Witness ==
    /\ last.op \in {"load", "drop", "thumbnail", "dimensions"}
    /\ last.path = FileN /\ ValidHeader(SourceOf(last))
    /\ last.result = Err("Unsupported file format")

\* A command called on a missing path with an unsupported extension, and
\* one called on a directory.
C28_WitnessMissing ==
    /\ last.op \in {"load", "drop", "thumbnail", "dimensions"}
    /\ last.path = FileN /\ SourceOf(last).kind = "missing"
    /\ last.result = Err("File not found")

C28_WitnessDirectory ==
    /\ last.op \in {"load", "drop", "thumbnail", "dimensions"}
    /\ is_dir(SourceOf(last))
    /\ last.result = Err("File not found")

\* A command that failed on a file it decoded.
C28_WitnessDecode ==
    /\ last.op \in {"load", "thumbnail", "dimensions"}
    /\ last.result.tag = "Err" /\ last.result.msg \in LoadErrors

\* The bytes a base64 text stands for: four characters give three bytes,
\* "=" fills the last group.
Sextet(ch) == IF ch = "=" THEN 0 ELSE (CHOOSE i \in 1 .. 64 : Base64Alphabet[i] = ch) - 1

RECURSIVE Base64Decode(_)
Base64Decode(text) ==
    IF Len(text) < 4 THEN <<>>
    ELSE LET c1 == Sextet(text[1])
             c2 == Sextet(text[2])
             c3 == Sextet(text[3])
             c4 == Sextet(text[4])
             group == << c1 * 4 + c2 \div 16, (c2 % 16) * 16 + c3 \div 4,
                         (c3 % 4) * 64 + c4 >>
             kept == IF text[3] = "=" THEN 1 ELSE IF text[4] = "=" THEN 2 ELSE 3
         IN  SubSeq(group, 1, kept) \o Base64Decode(SubSeq(text, 5, Len(text)))

IsGif(path) == \E k \in 1 .. Len(path) :
                  /\ HasExtension(path, SubSeq(path, k, Len(path)))
                  /\ Lower(SubSeq(path, k, Len(path))) = <<103, 105, 102>>

\* C29: for a path with the extension gif, in any letter case,
\* load_image_as_base64 returns the base64 text of the bytes of the file,
\* neither decoded nor re-encoded; for every other supported extension it
\* returns the base64 text of the decoded bitmap encoded anew in the format
\* of the extension.
C29_GifPassThrough ==
    last.op = "base64"
        => IF IsGif(last.path)
           THEN /\ last.result.tag = "Ok"
                /\ Base64Decode(last.result.val.v) = SourceOf(last).bytes
                /\ "decode" \notin last.io
           ELSE /\ "decode" \in last.io
                /\ last.result.tag = "Ok"
                     => \E format \in Range(Formats) :
                           /\ decode(format, SourceOf(last).bytes).tag = "Ok"
                           /\ get_image_format(last.path) = Some(format)
                           /\ Base64Decode(last.result.val.v) =
                                 encode(format,
                                        decode(format, SourceOf(last).bytes).val.v)

\* c.GiF, a GIF of two frames, was loaded; decoding and encoding it anew
\* would have kept one frame.
C29_Witness ==
    /\ last.op = "base64" /\ last.path = FileC /\ last.result.tag = "Ok"
    /\ decode("gif", SourceOf(last).bytes).tag = "Ok"
    /\ encode("gif", decode("gif", SourceOf(last).bytes).val.v) # SourceOf(last).bytes

\* c.GiF holding text was loaded: its bytes are returned as they are.
C29_WitnessText ==
    /\ last.op = "base64" /\ last.path = FileC /\ last.result.tag = "Ok"
    /\ ~ValidHeader(SourceOf(last))

\* A file with another supported extension was loaded.
C29_WitnessEncoded ==
    /\ last.op = "base64" /\ ~IsGif(last.path) /\ last.result.tag = "Ok"

\* The width and height of the thumbnail a call returned, read from the
\* JPEG in its payload.
ThumbnailOf(c) ==
    LET payload == IF c.op = "dimensions" THEN c.result.val.v.thumbnail_base64
                   ELSE c.result.val.v
    IN  into_dimensions("jpeg", Base64Decode(payload)).val.v

\* The width and height of the source of a call.
OriginalOf(c) == decode(reader_format(c.path), SourceOf(c).bytes).val.v

\* The thumbnail of width tw and height th fits the box of side s as the
\* source of width w and height h does: no side over s, the larger one
\* s, the other within a pixel of what the ratio w : h gives.
BoxFit(w, h, s, tw, th) ==
    /\ tw <= s /\ th <= s
    /\ Max(tw, th) = s
    /\ IF w >= h THEN (th - 1) * w <= h * s /\ h * s <= (th + 1) * w
       ELSE (tw - 1) * h <= w * s /\ w * s <= (tw + 1) * h

\* C30: for every source and every requested size s the thumbnail has
\* width <= s and height <= s, its larger side is s, and its sides are in
\* the ratio of the source's to within one pixel.
C30_BoxFit ==
    last.op \in {"thumbnail", "dimensions"} /\ last.result.tag = "Ok"
        => BoxFit(OriginalOf(last).width, OriginalOf(last).height, SizeOf(last),
                  ThumbnailOf(last)[1], ThumbnailOf(last)[2])

\* C30 for the sizes from 1 on, where the code keeps it.
C30_BoxFitPositive ==
    last.op \in {"thumbnail", "dimensions"} /\ last.result.tag = "Ok"
    /\ SizeOf(last) >= 1
        => BoxFit(OriginalOf(last).width, OriginalOf(last).height, SizeOf(last),
                  ThumbnailOf(last)[1], ThumbnailOf(last)[2])

\* A thumbnail of a source that is not square was made, larger and smaller
\* than the source.
C30_WitnessPositive ==
    /\ last.op \in {"thumbnail", "dimensions"} /\ last.result.tag = "Ok"
    /\ SizeOf(last) = 50 /\ OriginalOf(last).width = 3 /\ OriginalOf(last).height = 7
    /\ ThumbnailOf(last) = <<21, 50>>

(***************************************************************************)
(* Properties of get_cache_stats and of the remaining commands.            *)
(***************************************************************************)
\* The keys of the map a get_cache_stats call returned, and its values.
StatKeys(c) == {p[1] : p \in c.result.val.v}

Stat(c, key) == (CHOOSE p \in c.result.val.v : p[1] = key)[2]

\* C31: every get_cache_stats result that is Ok has both the total_files
\* and the valid_files entry, also when the cache directory is empty, is
\* missing or cannot be resolved.
C31_StatsHasBothFields ==
    last.op = "stats" /\ ReturnedOk(last)
        => StatKeys(last) = {"total_files", "valid_files"}

\* C31 where get_cache_dir returned the directory and it is there.
C31_StatsFieldsResolved ==
    last.op = "stats" /\ ReturnedOk(last)
    /\ last.fault.kind \notin {"resolve", "create", "stat"}
        => StatKeys(last) = {"total_files", "valid_files"}

\* C32: validate_image_file returns Ok for every path, and its value is
\* true exactly when the path exists, is a regular file and has a
\* supported extension.
C32_ValidateIsTotal ==
    last.op = "validate"
        => /\ last.result.tag = "Ok"
           /\ last.result.val.v \in BOOLEAN
           /\ last.result.val.v =
                 ( /\ SourceOf(last).kind = "file"
                   /\ \E k \in 1 .. Len(last.path) :
                         /\ HasExtension(last.path, SubSeq(last.path, k, Len(last.path)))
                         /\ Lower(SubSeq(last.path, k, Len(last.path)))
                                \in SupportedExtensions )
           /\ last.io = {}

\* A file with a supported extension that holds text was validated: true,
\* the content is not looked at.
C32_Witness ==
    /\ last.op = "validate" /\ last.result = Ok(Some(TRUE))
    /\ ~ValidHeader(SourceOf(last))

\* A missing path with a supported extension, a directory and a file with
\* another extension were validated: false.
C32_WitnessMissing ==
    /\ last.op = "validate" /\ last.result = Ok(Some(FALSE))
    /\ SourceOf(last).kind = "missing" /\ is_supported_image(last.path)

C32_WitnessDirectory ==
    last.op = "validate" /\ last.result = Ok(Some(FALSE)) /\ is_dir(SourceOf(last))

C32_WitnessUnsupported ==
    /\ last.op = "validate" /\ last.result = Ok(Some(FALSE))
    /\ is_file(SourceOf(last)) /\ ValidHeader(SourceOf(last))

\* The .json files of a directory, and those of them that are records.
JsonFiles(fs) == {f \in Present(fs) : f.ext = "json"}

Records(fs) == {f \in JsonFiles(fs) : IsRecord(fs[f])}

\* C33: a get_cache_stats call that nothing disturbs returns total_files =
\* the number of .json files of the directory and valid_files = the number
\* of those that are records with time - created <= CACHE_DURATION; so
\* valid_files <= total_files, and a record of age exactly CACHE_DURATION
\* counts as valid.
C33_StatsValues ==
    last.op = "stats" /\ FaultFree(last)
        => /\ ReturnedOk(last)
           /\ Stat(last, "total_files") = Cardinality(JsonFiles(last.pre))
           /\ Stat(last, "valid_files") =
                 Cardinality({f \in Records(last.pre) :
                     last.time - EntryOf(last.pre[f]).created <= CACHE_DURATION})
           /\ Stat(last, "valid_files") <= Stat(last, "total_files")

\* C33 for directories in which no record is stamped later than the time
\* of the call.
C33_StatsValuesNoFuture ==
    last.op = "stats" /\ FaultFree(last) /\ NoneFromFuture(last)
        => /\ ReturnedOk(last)
           /\ Stat(last, "total_files") = Cardinality(JsonFiles(last.pre))
           /\ Stat(last, "valid_files") =
                 Cardinality({f \in Records(last.pre) :
                     last.time - EntryOf(last.pre[f]).created <= CACHE_DURATION})
           /\ Stat(last, "valid_files") <= Stat(last, "total_files")

\* A record of age exactly CACHE_DURATION was counted as valid, beside a
\* .json file that is no record.
C33_WitnessBoundary ==
    /\ last.op = "stats" /\ FaultFree(last) /\ ReturnedOk(last)
    /\ Stat(last, "valid_files") = 1 /\ Stat(last, "total_files") = 2
    /\ \E f \in Records(last.pre) :
          last.time - EntryOf(last.pre[f]).created = CACHE_DURATION

\* C34: when a get_cached_thumbnail and set_cached_thumbnail calls for one
\* key have run concurrently and all have returned, the file of the key is
\* in the directory; and what a get deleted was, at the moment it was
\* deleted, a record past the age threshold.
C34_GetKeepsFreshWrite ==
    ( race # NoRace /\ Readers # {} )
    => /\ AllDone
            => \A w \in Writers :
                  files[cache_file(race[w].path, race[w].size)] # NoFile
       /\ \A g \in Readers :
             \A content \in race[g].deleted :
                 /\ IsRecord(content)
                 /\ clock - EntryOf(content).created > CACHE_DURATION

\* No get deleted the record that a set had written and returned from.
C34_CompletedWriteKept ==
    \A g \in Readers :
        \A content \in race[g].deleted :
            \A w \in Writers : content # RecordOf(race[w]) \/ race[w].pc # "done"

\* C35: for every created of a record, also created later than the time of
\* the call, the age computed by get_cached_thumbnail, clear_old_cache and
\* get_cache_stats is time - created: the call returns, and a record stamped
\* later than the call, whose age is below CACHE_DURATION, is served,
\* kept and counted as valid.
C35_AgeArithmeticSafe ==
    last.op \in {"get", "sweep", "stats"} /\ FaultFree(last)
        => /\ last.result.tag # "Panic"
           /\ \A f \in Records(last.pre) :
                 EntryOf(last.pre[f]).created > last.time
                    => /\ files[f] = last.pre[f]
                       /\ last.op = "get" /\ f = FileOf(last)
                            => last.result = Ok(Some(EntryOf(last.pre[f]).thumbnail))
                       /\ last.op = "stats" => Stat(last, "valid_files") >= 1

\* Where no record is stamped later than the time of the call, the three
\* operations return.
C35_SafeWithoutFuture ==
    last.op \in {"get", "sweep", "stats"} /\ NoneFromFuture(last)
        => last.result.tag # "Panic"

\* Each of the three operations panicked on a record stamped later than
\* the call, in a build that checks overflow.
C35_WitnessGetPanic == last.op = "get" /\ last.result.tag = "Panic"

C35_WitnessSweepPanic == last.op = "sweep" /\ last.result.tag = "Panic"

C35_WitnessStatsPanic == last.op = "stats" /\ last.result.tag = "Panic"

\* In a build that does not check, the get removed the record.
C35_WitnessWrapped ==
    /\ last.op = "get" /\ FaultFree(last) /\ ~overflowChecks
    /\ IsRecord(last.pre[FileOf(last)])
    /\ EntryOf(last.pre[FileOf(last)]).created > last.time
    /\ last.result = Ok(None) /\ files[FileOf(last)] = NoFile

\* Without a size, or with the size 30.
DefaultSizes == {NoSize, SomeSize(DEFAULT_SIZE)}

\* C36: a size of None is the size 30.  A record put with one of None and
\* Some(30) is the record a get with the other finds: within the window the
\* get returns the payload of the put.  generate_image_thumbnail without a
\* size returns what it returns with Some(30).
C36_DefaultSize ==
    /\ ( /\ prev.op = "set" /\ ReturnedOk(prev) /\ FaultFree(prev)
         /\ last.op = "get" /\ FaultFree(last)
         /\ last.path = prev.path
         /\ prev.size \in DefaultSizes /\ last.size \in DefaultSizes
         /\ last.time >= prev.time /\ last.time - prev.time <= CACHE_DURATION )
       => last.result = Ok(Some(prev.payload))
    /\ last.op = "thumbnail" /\ last.size = NoSize
       => /\ last.result =
                generate_image_thumbnail(last.src, last.path, SomeSize(30)).result
          /\ last.result.tag = "Ok" => Max(ThumbnailOf(last)[1], ThumbnailOf(last)[2]) = 30

\* A record put without a size was found by a get with Some(30).
C36_Witness ==
    /\ prev.op = "set" /\ prev.size = NoSize
    /\ last.op = "get" /\ last.size = SomeSize(30)
    /\ last.result = Ok(Some(prev.payload))

\* A record put with Some(30) was found by a get without a size.
C36_WitnessConverse ==
    /\ prev.op = "set" /\ prev.size = SomeSize(30)
    /\ last.op = "get" /\ last.size = NoSize
    /\ last.result = Ok(Some(prev.payload))

\* A thumbnail was generated without a size.
C36_WitnessThumbnail ==
    last.op = "thumbnail" /\ last.size = NoSize /\ last.result.tag = "Ok"

\* get_cache_stats directly after a sweep that completed, at the same clock
\* reading, nothing being disturbed in either.
StatsAfterSweep ==
    /\ prev.op = "sweep" /\ ReturnedOk(prev) /\ FaultFree(prev)
    /\ last.op = "stats" /\ FaultFree(last)
    /\ last.time = prev.time

\* No .json file of the directory is text that is not a record.
NoUnparsable(fs) == \A f \in JsonFiles(fs) : IsUtf8(fs[f]) => IsRecord(fs[f])

\* C37: get_cache_stats directly after a completed clear_old_cache reports
\* total_files = valid_files, whatever the directory held before the sweep.
C37_SweepLeavesValid ==
    StatsAfterSweep
        => /\ ReturnedOk(last)
           /\ StatKeys(last) = {"total_files", "valid_files"}
           /\ Stat(last, "total_files") = Stat(last, "valid_files")

\* C37 for directories whose .json files were all records or unreadable
\* before the sweep.
C37_SweepLeavesValidRecords ==
    StatsAfterSweep /\ NoUnparsable(prev.pre)
        => /\ ReturnedOk(last)
           /\ StatKeys(last) = {"total_files", "valid_files"}
           /\ Stat(last, "total_files") = Stat(last, "valid_files")

\* The sweep removed an expired record, and the stats that followed counted
\* the record that was left.
C37_WitnessSwept ==
    /\ StatsAfterSweep /\ prev.removed >= 1
    /\ NoUnparsable(prev.pre)
    /\ ReturnedOk(last) /\ Stat(last, "total_files") = 1
    /\ Stat(last, "valid_files") = 1

\* The files of the cache directory that are not named <something>.json.
Foreign(fs) == {f \in Present(fs) : f.ext # "json"}

\* C38: only entry files are touched.  No cache command changes or removes
\* a file of the cache directory whose extension is not json and none
\* creates one; the file a get or a set works on is named <key>.json and is
\* the only file it may change; total_files of get_cache_stats is at most
\* the number of .json files.
C38_OnlyEntryFiles ==
    last.op \in {"get", "set", "sweep", "stats"}
        => /\ \A f \in FileNames : f.ext # "json" => files[f] = last.pre[f]
           /\ last.op \in {"get", "set"} =>
                 /\ FileOf(last).ext = "json"
                 /\ \A f \in FileNames : f # FileOf(last) => files[f] = last.pre[f]
           /\ (last.op = "stats" /\ ReturnedOk(last) /\ StatKeys(last) # {}) =>
                 /\ Stat(last, "total_files") <= Cardinality(JsonFiles(last.pre))
                 /\ Stat(last, "valid_files") <= Cardinality(Records(last.pre))

\* A sweep that removed an expired entry left the file that is not named
\* *.json, which holds a record just as old.
C38_Witness ==
    /\ last.op = "sweep" /\ last.removed >= 1
    /\ \E f \in Foreign(last.pre) :
          /\ IsRecord(last.pre[f])
          /\ last.time - EntryOf(last.pre[f]).created > CACHE_DURATION
          /\ files[f] = last.pre[f]

\* get_cache_stats did not count the file that is not an entry.
C38_WitnessStats ==
    /\ last.op = "stats" /\ ReturnedOk(last) /\ StatKeys(last) # {}
    /\ Foreign(last.pre) # {}
    /\ Stat(last, "total_files") = Cardinality(Present(last.pre)) - 1
    /\ Stat(last, "total_files") >= 1

\* C39: get_cache_stats is read-only.  Whatever it returns, every file of
\* the cache directory is afterwards what it was before, expired records
\* and files that are not records included.
C39_StatsReadOnly ==
    last.op = "stats" => files = last.pre

\* get_cache_stats ran over an expired record and a .json file that is not
\* a record, and both are still there.
C39_Witness ==
    /\ last.op = "stats" /\ ReturnedOk(last) /\ FaultFree(last)
    /\ \E f \in Records(last.pre) :
          /\ last.time - EntryOf(last.pre[f]).created > CACHE_DURATION
          /\ files[f] = last.pre[f]
    /\ \E f \in JsonFiles(last.pre) \ Records(last.pre) : files[f] = last.pre[f]
    /\ Stat(last, "total_files") = 2 /\ Stat(last, "valid_files") = 0

====
